---------------------------- MODULE Spec2Model ----------------------------
(***************************************************************************)
(* The record stores of backend/server.py (patients, appointments, the     *)
(* three clinical forms, attachments, prescriptions) and their request     *)
(* handlers, as a state machine.  A collection is the set of its           *)
(* documents; a document is a record of the fields the handlers read or    *)
(* write for scoping, capacity and uniqueness.  Each handler is one        *)
(* action; the handlers whose read-then-write race is of interest are      *)
(* also given step by step (one step per awaited store call).              *)
(***************************************************************************)
EXTENDS Integers, Sequences, FiniteSets, TLC

VARIABLES
    patients,                \* db.patients
    appointments,            \* db.appointments
    schede_medicazione_med,  \* db.schede_medicazione_med
    schede_impianto_picc,    \* db.schede_impianto_picc
    schede_gestione_picc,    \* db.schede_gestione_picc
    photos,                  \* db.photos
    prescrizioni,            \* db.prescrizioni
    resp,                    \* the last response: handler and HTTP status
    tasks,                   \* requests in flight (step-by-step handlers)
    now                      \* the clock read by datetime.now(timezone.utc)

db == <<patients, appointments, schede_medicazione_med, schede_impianto_picc,
        schede_gestione_picc, photos, prescrizioni>>

vars == <<patients, appointments, schede_medicazione_med, schede_impianto_picc,
          schede_gestione_picc, photos, prescrizioni, resp, tasks, now>>

----------------------------------------------------------------------------
(* Bounds of the model *)

\* stored documents, all collections together, in the specification of all handlers
MaxDocs == 2

\* stored appointments in the scheduler specification
MaxAppointments == 3

\* stored monthly logs in the monthly-log specification
MaxSchede == 2

----------------------------------------------------------------------------
(* Enumerations and static tables *)

Ambulatorio == {"pta_centro", "villa_ginestre"}

VILLA_GINESTRE == "villa_ginestre"

PatientType == {"PICC", "MED", "PICC_MED"}

IN_CURA == "in_cura"

\* the static credential table: user -> clinics
USERS ==
    [u \in {"Domenico", "Antonella", "Giovanna", "Oriana", "G.Domenico"} |->
        IF u \in {"Domenico", "Antonella"}
        THEN [ambulatori |-> {"pta_centro", "villa_ginestre"}]
        ELSE [ambulatori |-> {"pta_centro"}]]

\* absent optional value (None), absent key of an update mapping
Null == "null"

\* a patient_id that no stored patient has or will have
NoPatient == 0

\* request inputs: bearer tokens.  A user's name stands for a valid token of
\* that user (one user per clinic list of the table), "invalid" for a token
\* that does not verify (bad signature, expired)
Tokens == {"Domenico", "Giovanna"}
BadTokens == {"invalid"}

\* a string of the store is the sequence of its characters, a character its
\* code point: "-" is 45 and the digits "0".."9" are 48..57

\* f"{n}": the decimal digits of n, unpadded
RECURSIVE Decimal(_)
Decimal(n) ==
    IF n < 10 THEN <<48 + n>> ELSE Append(Decimal(n \div 10), 48 + (n % 10))

\* f"{n:02d}": at least two digits, zero-padded
Decimal02(n) == IF n < 10 THEN <<48, 48 + n>> ELSE Decimal(n)

\* f"{anno}-{mese:02d}-{giorno:02d}", the YYYY-MM-DD form of the date fields
Date(anno, mese, giorno) ==
    Decimal(anno) \o <<45>> \o Decimal02(mese) \o <<45>> \o Decimal02(giorno)

\* the order of two strings in a store query ($gte, $lt): lexicographic, by
\* code point, a proper prefix first
RECURSIVE StrLess(_, _)
StrLess(s, t) ==
    IF t = <<>> THEN FALSE
    ELSE IF s = <<>> THEN TRUE
    ELSE IF Head(s) # Head(t) THEN Head(s) < Head(t)
    ELSE StrLess(Tail(s), Tail(t))

Dates == {Date(2025, 6, 10), Date(2025, 6, 11)}
\* "09:00", as HH:MM
Times == {Decimal02(9) \o <<58>> \o Decimal02(0)}
Tipi == {"PICC", "MED"}
Mesi == {"2025-06", "2025-07"}

----------------------------------------------------------------------------
(* Helpers: tokens, responses, the document store *)

\* jwt.decode: the payload of a valid token, or 401
verify_token(token) ==
    IF token \in DOMAIN USERS
    THEN [valid |-> TRUE, sub |-> token, ambulatori |-> USERS[token].ambulatori]
    ELSE [valid |-> FALSE, sub |-> token, ambulatori |-> {}]

\* Depends(get_current_user), on a token that verified: the user must be in
\* the table (404 otherwise); the clinics of the user are not looked at
get_current_user(token) ==
    IF verify_token(token).sub \notin DOMAIN USERS THEN 404 ELSE 0

Reply(op, status) == resp' = [op |-> op, status |-> status]

\* a response whose returned value is kept
ReplyBody(op, status, body) == resp' = [op |-> op, status |-> status, body |-> body]

\* Depends(verify_token) raises 401 before the handler of the route runs:
\* every route but login and the calendar helpers declares the dependency
unauthenticated(token) ==
    /\ ~verify_token(token).valid
    /\ resp' = [op |-> "verify_token", status |-> 401]
    /\ UNCHANGED <<db, tasks, now>>

\* a request that ends without writing: a raised HTTPException, or a read
Respond(op, status) == Reply(op, status) /\ UNCHANGED <<db, tasks, now>>

Ids(coll) == {d.id : d \in coll}

\* uuid.uuid4(): an id no stored document of the collection holds.  Which
\* one is immaterial (ids are only compared for equality): the least.
NewId(used) ==
    CHOOSE i \in 1..(Cardinality(used) + 1) :
        i \notin used /\ \A j \in 1..(i - 1) : j \in used

\* every patient_id a stored dependent document or a request in flight refers to
Referenced ==
    {d.patient_id : d \in appointments \cup schede_medicazione_med
                          \cup schede_impianto_picc \cup schede_gestione_picc
                          \cup photos \cup prescrizioni}
    \cup {tasks[r].data.patient_id : r \in {q \in DOMAIN tasks : tasks[q].pc # "idle"}}

\* db.<collection>.find_one({"id": id})
find_one(coll, id) == {d \in coll : d.id = id}

\* the by-id preamble without its clinic check
ScopedByIdUnchecked(coll, id, payload) ==
    IF find_one(coll, id) = {} THEN 404 ELSE 0

\* the by-id preamble shared by the get/update/delete handlers: 404, then the
\* clinic check on the STORED document, else 0 (proceed)
ScopedById(coll, id, payload) ==
    IF find_one(coll, id) = {} THEN 404
    ELSE IF \E d \in find_one(coll, id) : d.ambulatorio \notin payload.ambulatori THEN 403
    ELSE 0

\* the check of a request's clinic parameter: 403, else 0 (proceed)
ScopedByParam(ambulatorio, payload) ==
    IF ambulatorio \notin payload.ambulatori THEN 403 ELSE 0

\* {"$set": data} on one document: the keys of the mapping overwrite (or
\* add) fields, every other field keeps its stored value
SetFields(d, data) ==
    [k \in DOMAIN d \cup DOMAIN data |-> IF k \in DOMAIN data THEN data[k] ELSE d[k]]

\* a mapping cut down to some of its keys
Restrict(f, K) == [k \in K |-> f[k]]

\* the mappings a client can send as an untyped update (data: dict), drawn
\* from the full mappings: one key alone, or all the keys together
Patches(full) ==
    {Restrict(f, K) : f \in full,
                      K \in {L \in SUBSET {"ambulatorio", "data", "tipo", "mese", "patient_id"} :
                                /\ \A k \in L : \E g \in full : k \in DOMAIN g
                                /\ \/ Cardinality(L) = 1
                                   \/ \E g \in full : L = DOMAIN g}}

\* db.<collection>.update_one({"id": id}, {"$set": data})
update_one(coll, id, data) ==
    {IF d.id = id THEN SetFields(d, data) ELSE d : d \in coll}

\* db.<collection>.delete_one({"id": id})
delete_one(coll, id) == {d \in coll : d.id # id}

\* db.<collection>.delete_many({"patient_id": patient_id})
delete_many(coll, patient_id) == {d \in coll : d.patient_id # patient_id}

\* a patient_id a client can send: that of a stored patient, or of none
PatientIdInputs == Ids(patients) \cup {NoPatient}

\* an id a client can send: that of a stored document, or of none
IdInputs(coll) == Ids(coll) \cup {NewId(Ids(coll))}

----------------------------------------------------------------------------
(* Patients *)


\* every patient body, over the fields the handlers read
PatientBodies ==
    [nome : {"Anna", "Bruna"}, cognome : {"Rossi", "Verdi"},
     tipo : PatientType, ambulatorio : Ambulatorio]

\* every patient update: a field is a new value, or None
PatientUpdates ==
    [nome : {"Anna", "Bruna", Null}, cognome : {"Rossi", "Verdi", Null},
     tipo : {Null, "PICC", "MED"}, status : {Null, "dimesso"}]

\* the patient bodies and updates of the specifications that do not follow
\* the name: one name, never changed
PatientCreate == {data \in PatientBodies : data.nome = "Anna" /\ data.cognome = "Rossi"}

PatientUpdate == {data \in PatientUpdates : data.nome = Null /\ data.cognome = Null}

\* a filter that lets the nulls through
AllFields(data) == data

\* {k: v for k, v in data.model_dump().items() if v is not None}
NonNull(data) == Restrict(data, {k \in DOMAIN data : data[k] # Null})

Patient(id, data) ==
    [id |-> id, nome |-> data.nome, cognome |-> data.cognome, tipo |-> data.tipo,
     ambulatorio |-> data.ambulatorio, status |-> IN_CURA,
     created_at |-> now, updated_at |-> now]

\* the assignment check refusing MED only, PICC_MED let through
InvalidAssignmentOnlyMED(data) == data.ambulatorio = VILLA_GINESTRE /\ data.tipo = "MED"

\* if data.ambulatorio == VILLA_GINESTRE and data.tipo != PICC: 400
InvalidAssignment(data) == data.ambulatorio = VILLA_GINESTRE /\ data.tipo # "PICC"

create_patient(data, token) ==
    LET payload == verify_token(token) IN
    IF ScopedByParam(data.ambulatorio, payload) # 0 THEN Respond("create_patient", 403)
    ELSE IF InvalidAssignment(data) THEN Respond("create_patient", 400)
    ELSE /\ patients' = patients \cup {Patient(NewId(Ids(patients) \cup Referenced), data)}
         /\ Reply("create_patient", 201)
         /\ UNCHANGED <<appointments, schede_medicazione_med, schede_impianto_picc,
                        schede_gestione_picc, photos, prescrizioni, tasks, now>>

get_patients(ambulatorio, token) ==
    LET payload == verify_token(token) IN
    IF ScopedByParam(ambulatorio, payload) # 0 THEN Respond("get_patients", 403)
    ELSE Respond("get_patients", 200)

get_patient(patient_id, token) ==
    LET payload == verify_token(token) IN
    IF ScopedById(patients, patient_id, payload) # 0
         THEN Respond("get_patient", ScopedById(patients, patient_id, payload))
    ELSE Respond("get_patient", 200)

\* update_patient that carries a new name over to the patient's appointments
update_patient_renaming(patient_id, data, token) ==
    LET payload == verify_token(token) IN
    IF ScopedById(patients, patient_id, payload) # 0
         THEN Respond("update_patient", ScopedById(patients, patient_id, payload))
    ELSE /\ patients' = update_one(patients, patient_id,
                                    SetFields(NonNull(data), [updated_at |-> now]))
         /\ appointments' =
                {IF a.patient_id = patient_id /\ data.nome # Null
                 THEN [a EXCEPT !.patient_nome = data.nome] ELSE a : a \in appointments}
         /\ Reply("update_patient", 200)
         /\ UNCHANGED <<schede_medicazione_med, schede_impianto_picc,
                        schede_gestione_picc, photos, prescrizioni, tasks, now>>

update_patient(patient_id, data, token) ==
    LET payload == verify_token(token) IN
    IF ScopedById(patients, patient_id, payload) # 0
         THEN Respond("update_patient", ScopedById(patients, patient_id, payload))
    ELSE /\ patients' = update_one(patients, patient_id,
                                    SetFields(NonNull(data), [updated_at |-> now]))
         /\ Reply("update_patient", 200)
         /\ UNCHANGED <<appointments, schede_medicazione_med, schede_impianto_picc,
                        schede_gestione_picc, photos, prescrizioni, tasks, now>>

\* delete_patient with the attachments left out of the cascade
delete_patient_keeping_photos(patient_id, token) ==
    LET payload == verify_token(token) IN
    IF ScopedById(patients, patient_id, payload) # 0
         THEN Respond("delete_patient", ScopedById(patients, patient_id, payload))
    ELSE /\ patients' = delete_one(patients, patient_id)
         /\ schede_impianto_picc' = delete_many(schede_impianto_picc, patient_id)
         /\ schede_gestione_picc' = delete_many(schede_gestione_picc, patient_id)
         /\ schede_medicazione_med' = delete_many(schede_medicazione_med, patient_id)
         /\ appointments' = delete_many(appointments, patient_id)
         /\ prescrizioni' = delete_many(prescrizioni, patient_id)
         /\ Reply("delete_patient", 200)
         /\ UNCHANGED <<photos, tasks, now>>

delete_patient(patient_id, token) ==
    LET payload == verify_token(token) IN
    IF ScopedById(patients, patient_id, payload) # 0
         THEN Respond("delete_patient", ScopedById(patients, patient_id, payload))
    ELSE /\ patients' = delete_one(patients, patient_id)
         /\ schede_impianto_picc' = delete_many(schede_impianto_picc, patient_id)
         /\ schede_gestione_picc' = delete_many(schede_gestione_picc, patient_id)
         /\ schede_medicazione_med' = delete_many(schede_medicazione_med, patient_id)
         /\ appointments' = delete_many(appointments, patient_id)
         /\ prescrizioni' = delete_many(prescrizioni, patient_id)
         /\ photos' = delete_many(photos, patient_id)
         /\ Reply("delete_patient", 200)
         /\ UNCHANGED <<tasks, now>>

download_patient_pdf(patient_id, token) ==
    LET payload == verify_token(token) IN
    IF ScopedById(patients, patient_id, payload) # 0
         THEN Respond("download_patient_pdf", ScopedById(patients, patient_id, payload))
    ELSE Respond("download_patient_pdf", 200)

download_patient_zip(patient_id, token) ==
    LET payload == verify_token(token) IN
    IF ScopedById(patients, patient_id, payload) # 0
         THEN Respond("download_patient_zip", ScopedById(patients, patient_id, payload))
    ELSE Respond("download_patient_zip", 200)

----------------------------------------------------------------------------
(* Appointments *)

\* the appointment bodies over some dates and some lists of procedure codes
AppointmentBodies(dates, prestazioni) ==
    [patient_id : PatientIdInputs, ambulatorio : Ambulatorio,
     data : dates, ora : Times, tipo : Tipi, prestazioni : prestazioni]

AppointmentCreate == AppointmentBodies(Dates, {<<"medicazione_semplice">>})

\* the untyped update mapping (data: dict), over the keys of the slot
AppointmentPatch == Patches([ambulatorio : Ambulatorio, data : Dates, tipo : Tipi])

\* Appointment(**data.model_dump(), patient_nome=patient["nome"],
\*             patient_cognome=patient["cognome"])
Appointment(id, data, patient) ==
    [id |-> id, patient_id |-> data.patient_id,
     patient_nome |-> patient.nome, patient_cognome |-> patient.cognome,
     ambulatorio |-> data.ambulatorio, data |-> data.data, ora |-> data.ora,
     tipo |-> data.tipo, prestazioni |-> data.prestazioni]

\* db.appointments.count_documents({ambulatorio, data, ora, tipo})
count_documents(coll, data) ==
    Cardinality({a \in coll : /\ a.ambulatorio = data.ambulatorio
                              /\ a.data = data.data
                              /\ a.ora = data.ora
                              /\ a.tipo = data.tipo})

\* the capacity check off by one
SlotFullOffByOne(existing) == existing > 2

\* if existing >= 2: raise HTTPException(400, "Slot pieno (max 2 pazienti)")
SlotFull(existing) == existing >= 2

create_appointment(data, token) ==
    LET payload == verify_token(token) IN
    IF ScopedByParam(data.ambulatorio, payload) # 0 THEN Respond("create_appointment", 403)
    ELSE IF find_one(patients, data.patient_id) = {} THEN Respond("create_appointment", 404)
    ELSE IF SlotFull(count_documents(appointments, data)) THEN Respond("create_appointment", 400)
    ELSE /\ \E patient \in find_one(patients, data.patient_id) :
                appointments' =
                    appointments \cup {Appointment(NewId(Ids(appointments)), data, patient)}
         /\ Reply("create_appointment", 200)
         /\ UNCHANGED <<patients, schede_medicazione_med, schede_impianto_picc,
                        schede_gestione_picc, photos, prescrizioni, tasks, now>>

\* the query that applies the date range beside the exact date
find_appointments_both(ambulatorio, data, data_from, data_to, tipo) ==
    {a \in appointments :
        /\ a.ambulatorio = ambulatorio
        /\ data # <<>> => a.data = data
        /\ (data_from # <<>> /\ data_to # <<>>) =>
              (~StrLess(a.data, data_from) /\ ~StrLess(data_to, a.data))
        /\ tipo # "" => a.tipo = tipo}

\* db.appointments.find(query): an omitted date or care type is the empty
\* string, which "if data:" and "if tipo:" take for None
find_appointments(ambulatorio, data, data_from, data_to, tipo) ==
    {a \in appointments :
        /\ a.ambulatorio = ambulatorio
        /\ IF data # <<>> THEN a.data = data
           ELSE IF data_from # <<>> /\ data_to # <<>>
                THEN ~StrLess(a.data, data_from) /\ ~StrLess(data_to, a.data)
           ELSE TRUE
        /\ tipo # "" => a.tipo = tipo}

\* the body is the documents found, .sort([("data", 1), ("ora", 1)]): any
\* order of them in which no document comes after one of a later date, or
\* of the same date and a later time
get_appointments(ambulatorio, data, data_from, data_to, tipo, token) ==
    LET payload == verify_token(token)
        found == find_appointments(ambulatorio, data, data_from, data_to, tipo)
    IN
    IF ScopedByParam(ambulatorio, payload) # 0 THEN Respond("get_appointments", 403)
    ELSE /\ \E list \in [1..Cardinality(found) -> found] :
                /\ \A i, j \in DOMAIN list :
                      i < j =>
                        /\ list[i] # list[j]
                        /\ ~StrLess(list[j].data, list[i].data)
                        /\ list[j].data = list[i].data => ~StrLess(list[j].ora, list[i].ora)
                /\ ReplyBody("get_appointments", 200, list)
         /\ UNCHANGED <<db, tasks, now>>

update_appointment(appointment_id, data, token) ==
    LET payload == verify_token(token) IN
    IF ScopedById(appointments, appointment_id, payload) # 0
         THEN Respond("update_appointment", ScopedById(appointments, appointment_id, payload))
    ELSE /\ appointments' = update_one(appointments, appointment_id, data)
         /\ Reply("update_appointment", 200)
         /\ UNCHANGED <<patients, schede_medicazione_med, schede_impianto_picc,
                        schede_gestione_picc, photos, prescrizioni, tasks, now>>

\* a delete that answers without removing the appointment
delete_appointment_keeping(appointment_id, token) ==
    LET payload == verify_token(token) IN
    IF ScopedById(appointments, appointment_id, payload) # 0
         THEN Respond("delete_appointment", ScopedById(appointments, appointment_id, payload))
    ELSE Respond("delete_appointment", 200)

delete_appointment(appointment_id, token) ==
    LET payload == verify_token(token) IN
    IF ScopedById(appointments, appointment_id, payload) # 0
         THEN Respond("delete_appointment", ScopedById(appointments, appointment_id, payload))
    ELSE /\ appointments' = delete_one(appointments, appointment_id)
         /\ Reply("delete_appointment", 200)
         /\ UNCHANGED <<patients, schede_medicazione_med, schede_impianto_picc,
                        schede_gestione_picc, photos, prescrizioni, tasks, now>>

----------------------------------------------------------------------------
(* Clinical forms: dressing records, implant records, monthly logs *)

\* the draft of a form or attachment, over the scoping keys
SchedaCreate == [patient_id : PatientIdInputs, ambulatorio : Ambulatorio]

\* the untyped update mapping (data: dict) of a form, over the scoping keys
SchedaPatch == Patches([ambulatorio : Ambulatorio, patient_id : PatientIdInputs])

\* <Model>(**data.model_dump()).model_dump(): the fields of the draft, the
\* id and created_at
Scheda(id, data) == [id |-> id, created_at |-> now] @@ data

\* the request bodies of a dressing record: the required fields, and any of
\* fondo, essudato_quantita, essudato_tipo (the other optional fields alike)
SchedaMedicazioneBodies ==
    {Restrict(f, {"patient_id", "ambulatorio", "data_compilazione"} \cup K) :
        f \in [patient_id : {NoPatient}, ambulatorio : Ambulatorio,
               data_compilazione : {Date(2025, 6, 10)}, fondo : {<<"necrotico", "infetto">>},
               essudato_quantita : {"moderato"}, essudato_tipo : {<<"sieroso">>}],
        K \in SUBSET {"fondo", "essudato_quantita", "essudato_tipo"}}

\* a validation that fills in no default
SchedaMedicazioneMEDCreateAsSent(body) == body

\* SchedaMedicazioneMEDCreate(**body): the fields of the body, and the
\* default of each field the body leaves out
SchedaMedicazioneMEDCreate(body) ==
    body @@ [fondo |-> <<>>, essudato_quantita |-> Null, essudato_tipo |-> <<>>,
             medicazione |-> "La lesione e' stata trattata ..."]

create_scheda_medicazione_med(data, token) ==
    LET payload == verify_token(token) IN
    IF ScopedByParam(data.ambulatorio, payload) # 0
         THEN Respond("create_scheda_medicazione_med", 403)
    ELSE /\ schede_medicazione_med' =
                schede_medicazione_med \cup {Scheda(NewId(Ids(schede_medicazione_med)), data)}
         /\ Reply("create_scheda_medicazione_med", 200)
         /\ UNCHANGED <<patients, appointments, schede_impianto_picc,
                        schede_gestione_picc, photos, prescrizioni, tasks, now>>

get_schede_medicazione_med(patient_id, ambulatorio, token) ==
    LET payload == verify_token(token) IN
    IF ScopedByParam(ambulatorio, payload) # 0
         THEN Respond("get_schede_medicazione_med", 403)
    ELSE Respond("get_schede_medicazione_med", 200)

get_scheda_medicazione_med(scheda_id, token) ==
    LET payload == verify_token(token) IN
    IF ScopedById(schede_medicazione_med, scheda_id, payload) # 0
         THEN Respond("get_scheda_medicazione_med",
                      ScopedById(schede_medicazione_med, scheda_id, payload))
    ELSE /\ \E scheda \in find_one(schede_medicazione_med, scheda_id) :
                ReplyBody("get_scheda_medicazione_med", 200, scheda)
         /\ UNCHANGED <<db, tasks, now>>

update_scheda_medicazione_med(scheda_id, data, token) ==
    LET payload == verify_token(token) IN
    IF ScopedById(schede_medicazione_med, scheda_id, payload) # 0
         THEN Respond("update_scheda_medicazione_med",
                      ScopedById(schede_medicazione_med, scheda_id, payload))
    ELSE /\ schede_medicazione_med' = update_one(schede_medicazione_med, scheda_id, data)
         /\ Reply("update_scheda_medicazione_med", 200)
         /\ UNCHANGED <<patients, appointments, schede_impianto_picc,
                        schede_gestione_picc, photos, prescrizioni, tasks, now>>

delete_scheda_medicazione(scheda_id, token) ==
    LET payload == verify_token(token) IN
    IF ScopedById(schede_medicazione_med, scheda_id, payload) # 0
         THEN Respond("delete_scheda_medicazione",
                      ScopedById(schede_medicazione_med, scheda_id, payload))
    ELSE /\ schede_medicazione_med' = delete_one(schede_medicazione_med, scheda_id)
         /\ Reply("delete_scheda_medicazione", 200)
         /\ UNCHANGED <<patients, appointments, schede_impianto_picc,
                        schede_gestione_picc, photos, prescrizioni, tasks, now>>

create_scheda_impianto_picc(data, token) ==
    LET payload == verify_token(token) IN
    IF ScopedByParam(data.ambulatorio, payload) # 0
         THEN Respond("create_scheda_impianto_picc", 403)
    ELSE /\ schede_impianto_picc' =
                schede_impianto_picc \cup {Scheda(NewId(Ids(schede_impianto_picc)), data)}
         /\ Reply("create_scheda_impianto_picc", 200)
         /\ UNCHANGED <<patients, appointments, schede_medicazione_med,
                        schede_gestione_picc, photos, prescrizioni, tasks, now>>

get_schede_impianto_picc(patient_id, ambulatorio, token) ==
    LET payload == verify_token(token) IN
    IF ScopedByParam(ambulatorio, payload) # 0
         THEN Respond("get_schede_impianto_picc", 403)
    ELSE Respond("get_schede_impianto_picc", 200)

\* PUT /schede-impianto-picc/{scheda_id}: the route registered first serves it
update_scheda_impianto_picc(scheda_id, data, token) ==
    LET payload == verify_token(token) IN
    IF ScopedById(schede_impianto_picc, scheda_id, payload) # 0
         THEN Respond("update_scheda_impianto_picc",
                      ScopedById(schede_impianto_picc, scheda_id, payload))
    ELSE /\ schede_impianto_picc' = update_one(schede_impianto_picc, scheda_id, data)
         /\ Reply("update_scheda_impianto_picc", 200)
         /\ UNCHANGED <<patients, appointments, schede_medicazione_med,
                        schede_gestione_picc, photos, prescrizioni, tasks, now>>

\* after the clinic check the handler builds the document and returns
\* Response(...), a name the module never imports: NameError, HTTP 500
download_scheda_impianto_pdf(scheda_id, token) ==
    LET payload == verify_token(token) IN
    IF ScopedById(schede_impianto_picc, scheda_id, payload) # 0
         THEN Respond("download_scheda_impianto_pdf",
                      ScopedById(schede_impianto_picc, scheda_id, payload))
    ELSE Respond("download_scheda_impianto_pdf", 500)

delete_scheda_impianto(scheda_id, token) ==
    LET payload == verify_token(token) IN
    IF ScopedById(schede_impianto_picc, scheda_id, payload) # 0
         THEN Respond("delete_scheda_impianto",
                      ScopedById(schede_impianto_picc, scheda_id, payload))
    ELSE /\ schede_impianto_picc' = delete_one(schede_impianto_picc, scheda_id)
         /\ Reply("delete_scheda_impianto", 200)
         /\ UNCHANGED <<patients, appointments, schede_medicazione_med,
                        schede_gestione_picc, photos, prescrizioni, tasks, now>>

SchedaGestionePICCCreate ==
    [patient_id : PatientIdInputs, ambulatorio : Ambulatorio, mese : Mesi]

\* the untyped update mapping (data: dict) of a monthly log, over its key
SchedaGestionePatch == Patches([ambulatorio : Ambulatorio, mese : Mesi])

SchedaGestionePICC(id, data) ==
    [id |-> id, patient_id |-> data.patient_id, ambulatorio |-> data.ambulatorio,
     mese |-> data.mese]

\* db.schede_gestione_picc.find_one({patient_id, ambulatorio, mese})
find_scheda_gestione(coll, data) ==
    {s \in coll : /\ s.patient_id = data.patient_id
                  /\ s.ambulatorio = data.ambulatorio
                  /\ s.mese = data.mese}

\* a create that stores the log before it looks for the one of the month
create_scheda_gestione_picc_insert_first(data, token) ==
    LET payload == verify_token(token) IN
    IF ScopedByParam(data.ambulatorio, payload) # 0
         THEN Respond("create_scheda_gestione_picc", 403)
    ELSE /\ schede_gestione_picc' =
                schede_gestione_picc
                    \cup {SchedaGestionePICC(NewId(Ids(schede_gestione_picc)), data)}
         /\ Reply("create_scheda_gestione_picc",
                  IF find_scheda_gestione(schede_gestione_picc, data) # {} THEN 400 ELSE 200)
         /\ UNCHANGED <<patients, appointments, schede_medicazione_med,
                        schede_impianto_picc, photos, prescrizioni, tasks, now>>

create_scheda_gestione_picc(data, token) ==
    LET payload == verify_token(token) IN
    IF ScopedByParam(data.ambulatorio, payload) # 0
         THEN Respond("create_scheda_gestione_picc", 403)
    ELSE IF find_scheda_gestione(schede_gestione_picc, data) # {}
         THEN Respond("create_scheda_gestione_picc", 400)
    ELSE /\ schede_gestione_picc' =
                schede_gestione_picc
                    \cup {SchedaGestionePICC(NewId(Ids(schede_gestione_picc)), data)}
         /\ Reply("create_scheda_gestione_picc", 200)
         /\ UNCHANGED <<patients, appointments, schede_medicazione_med,
                        schede_impianto_picc, photos, prescrizioni, tasks, now>>

get_schede_gestione_picc(patient_id, ambulatorio, token) ==
    LET payload == verify_token(token) IN
    IF ScopedByParam(ambulatorio, payload) # 0
         THEN Respond("get_schede_gestione_picc", 403)
    ELSE Respond("get_schede_gestione_picc", 200)

update_scheda_gestione_picc(scheda_id, data, token) ==
    LET payload == verify_token(token) IN
    IF ScopedById(schede_gestione_picc, scheda_id, payload) # 0
         THEN Respond("update_scheda_gestione_picc",
                      ScopedById(schede_gestione_picc, scheda_id, payload))
    ELSE /\ schede_gestione_picc' = update_one(schede_gestione_picc, scheda_id, data)
         /\ Reply("update_scheda_gestione_picc", 200)
         /\ UNCHANGED <<patients, appointments, schede_medicazione_med,
                        schede_impianto_picc, photos, prescrizioni, tasks, now>>

delete_scheda_gestione(scheda_id, token) ==
    LET payload == verify_token(token) IN
    IF ScopedById(schede_gestione_picc, scheda_id, payload) # 0
         THEN Respond("delete_scheda_gestione",
                      ScopedById(schede_gestione_picc, scheda_id, payload))
    ELSE /\ schede_gestione_picc' = delete_one(schede_gestione_picc, scheda_id)
         /\ Reply("delete_scheda_gestione", 200)
         /\ UNCHANGED <<patients, appointments, schede_medicazione_med,
                        schede_impianto_picc, photos, prescrizioni, tasks, now>>

----------------------------------------------------------------------------
(* Attachments *)

\* A content type is the sequence of its pieces, cut so that each word the
\* handler searches for ("pdf", "word", "document", "excel", "spreadsheet")
\* and the prefix "image/" is a piece of its own: "w in mime_type" is "w is
\* a piece".  The empty sequence is the absent content type.
MimeTypes ==
    {<<>>, <<"application/", "pdf">>, <<"application/ms", "word">>,
     <<"application/vnd.ms-", "excel">>,
     <<"application/vnd.openxmlformats-office", "document", ".", "spreadsheet", "ml.sheet">>,
     <<"image/", "png">>, <<"text/plain">>}

\* file_type as stored: the one sent, or with none sent (None, or the
\* default "image") the one inferred from the content type
file_type_of(file_type, mime_type) ==
    LET in(w) == \E i \in DOMAIN mime_type : mime_type[i] = w IN
    IF file_type \notin {Null, "image"} THEN file_type
    ELSE IF in("pdf") THEN "pdf"
    ELSE IF in("word") \/ in("document") THEN "word"
    ELSE IF in("excel") \/ in("spreadsheet") THEN "excel"
    ELSE IF mime_type # <<>> /\ mime_type[1] = "image/" THEN "image"
    ELSE file_type

upload_photo(data, file_type, mime_type, token) ==
    LET payload == verify_token(token) IN
    IF ScopedByParam(data.ambulatorio, payload) # 0 THEN Respond("upload_photo", 403)
    ELSE /\ photos' =
                photos \cup {Scheda(NewId(Ids(photos)), data)
                                @@ [file_type |-> file_type_of(file_type, mime_type),
                                    mime_type |-> mime_type]}
         /\ Reply("upload_photo", 200)
         /\ UNCHANGED <<patients, appointments, schede_medicazione_med,
                        schede_impianto_picc, schede_gestione_picc, prescrizioni, tasks, now>>

get_photos(patient_id, ambulatorio, token) ==
    LET payload == verify_token(token) IN
    IF ScopedByParam(ambulatorio, payload) # 0 THEN Respond("get_photos", 403)
    ELSE Respond("get_photos", 200)

get_photo(photo_id, token) ==
    LET payload == verify_token(token) IN
    IF ScopedById(photos, photo_id, payload) # 0
         THEN Respond("get_photo", ScopedById(photos, photo_id, payload))
    ELSE Respond("get_photo", 200)

delete_photo(photo_id, token) ==
    LET payload == verify_token(token) IN
    IF ScopedById(photos, photo_id, payload) # 0
         THEN Respond("delete_photo", ScopedById(photos, photo_id, payload))
    ELSE /\ photos' = delete_one(photos, photo_id)
         /\ Reply("delete_photo", 200)
         /\ UNCHANGED <<patients, appointments, schede_medicazione_med,
                        schede_impianto_picc, schede_gestione_picc, prescrizioni, tasks, now>>

----------------------------------------------------------------------------
(* Prescriptions *)

Durate == {1, 2}

\* the prescription bodies over some patient ids and some start dates
PrescrizioneBodies(patient_ids, dates) ==
    [patient_id : patient_ids, ambulatorio : Ambulatorio,
     data_inizio : dates, durata_mesi : Durate]

PrescrizioneCreate == PrescrizioneBodies(PatientIdInputs, {Date(2025, 6, 10)})

Prescrizione(id, data) ==
    [id |-> id, patient_id |-> data.patient_id, ambulatorio |-> data.ambulatorio,
     data_inizio |-> data.data_inizio, durata_mesi |-> data.durata_mesi,
     created_at |-> now, updated_at |-> now]

\* db.prescrizioni.find_one({patient_id, ambulatorio}): the documents that match
find_prescrizione(coll, patient_id, ambulatorio) ==
    {p \in coll : p.patient_id = patient_id /\ p.ambulatorio = ambulatorio}

get_prescrizioni(ambulatorio, token) ==
    IF get_current_user(token) # 0
    THEN Respond("get_prescrizioni", get_current_user(token))
    ELSE Respond("get_prescrizioni", 200)

\* create_or_update_prescrizione without its update branch: every call inserts
create_or_update_prescrizione_insert_only(data, token) ==
    IF get_current_user(token) # 0
    THEN Respond("create_or_update_prescrizione", get_current_user(token))
    ELSE /\ prescrizioni' =
                prescrizioni \cup {Prescrizione(NewId(Ids(prescrizioni)), data)}
         /\ ReplyBody("create_or_update_prescrizione", 200,
                      [message |-> "Prescrizione creata",
                       id |-> NewId(Ids(prescrizioni))])
         /\ UNCHANGED <<patients, appointments, schede_medicazione_med,
                        schede_impianto_picc, schede_gestione_picc, photos, tasks, now>>

create_or_update_prescrizione(data, token) ==
    IF get_current_user(token) # 0
    THEN Respond("create_or_update_prescrizione", get_current_user(token))
    ELSE /\ IF find_prescrizione(prescrizioni, data.patient_id, data.ambulatorio) # {}
            THEN \E existing \in find_prescrizione(prescrizioni, data.patient_id,
                                                   data.ambulatorio) :
                    /\ prescrizioni' =
                           update_one(prescrizioni, existing.id,
                                      [data_inizio |-> data.data_inizio,
                                       durata_mesi |-> data.durata_mesi,
                                       updated_at |-> now])
                    /\ ReplyBody("create_or_update_prescrizione", 200,
                                 [message |-> "Prescrizione aggiornata",
                                  id |-> existing.id])
            ELSE /\ prescrizioni' =
                        prescrizioni \cup {Prescrizione(NewId(Ids(prescrizioni)), data)}
                 /\ ReplyBody("create_or_update_prescrizione", 200,
                              [message |-> "Prescrizione creata",
                               id |-> NewId(Ids(prescrizioni))])
         /\ UNCHANGED <<patients, appointments, schede_medicazione_med,
                        schede_impianto_picc, schede_gestione_picc, photos, tasks, now>>

delete_prescrizione(patient_id, ambulatorio, token) ==
    IF get_current_user(token) # 0
    THEN Respond("delete_prescrizione", get_current_user(token))
    ELSE IF find_prescrizione(prescrizioni, patient_id, ambulatorio) = {}
         THEN Respond("delete_prescrizione", 404)
    ELSE /\ \E existing \in find_prescrizione(prescrizioni, patient_id, ambulatorio) :
                prescrizioni' = prescrizioni \ {existing}
         /\ Reply("delete_prescrizione", 200)
         /\ UNCHANGED <<patients, appointments, schede_medicazione_med,
                        schede_impianto_picc, schede_gestione_picc, photos, tasks, now>>

----------------------------------------------------------------------------
(* Statistics.  An omitted month is 0 and an omitted care type the empty   *)
(* string: the handlers test both for truth ("if mese:", "if tipo:"), so   *)
(* each stands for None as well.                                           *)

NoMese == 0
NoTipo == ""

\* start_date and end_date of the query
Period(anno, mese) ==
    IF mese # NoMese
    THEN [start_date |-> Date(anno, mese, 1),
          end_date |-> IF mese = 12 THEN Date(anno + 1, 1, 1) ELSE Date(anno, mese + 1, 1)]
    ELSE [start_date |-> Date(anno, 1, 1), end_date |-> Date(anno + 1, 1, 1)]

\* a window that takes its end date in
InRangeClosed(data, period) ==
    ~StrLess(data, period.start_date) /\ ~StrLess(period.end_date, data)

\* {"$gte": start_date, "$lt": end_date}
InRange(data, period) ==
    ~StrLess(data, period.start_date) /\ StrLess(data, period.end_date)

\* the care type filter without the default of Villa delle Ginestre
TipoQueryAsGiven(ambulatorio, tipo) == IF tipo # NoTipo THEN {tipo} ELSE Tipi

\* query["tipo"]: the care types the query lets through
TipoQuery(ambulatorio, tipo) ==
    IF tipo # NoTipo THEN {tipo}
    ELSE IF ambulatorio = VILLA_GINESTRE THEN {"PICC"}
    ELSE Tipi

\* db.appointments.find(query)
find_statistics(ambulatorio, anno, mese, tipo) ==
    LET period == Period(anno, mese) IN
    {a \in appointments :
        /\ a.ambulatorio = ambulatorio
        /\ a.tipo \in TipoQuery(ambulatorio, tipo)
        /\ InRange(a.data, period)}

\* prestazioni_count of a list of appointments: one per occurrence of a code
prestazioni_count(apps) ==
    LET occurrences == UNION {{<<a, i>> : i \in DOMAIN a.prestazioni} : a \in apps} IN
    [prest \in {o[1].prestazioni[o[2]] : o \in occurrences} |->
        Cardinality({o \in occurrences : o[1].prestazioni[o[2]] = prest})]

\* a monthly breakdown that counts a patient's accesses of a month once
monthly_stats_per_patient(apps) ==
    [month \in {SubSeq(a.data, 1, 7) : a \in apps} |->
        LET of == {a \in apps : SubSeq(a.data, 1, 7) = month} IN
        [accessi |-> Cardinality({a.patient_id : a \in of}),
         pazienti_unici |-> Cardinality({a.patient_id : a \in of}),
         prestazioni |-> prestazioni_count(of)]]

\* monthly_stats: under app["data"][:7], the YYYY-MM of the date, the
\* accesses, the distinct patients and the procedure counts of the month
monthly_stats(apps) ==
    [month \in {SubSeq(a.data, 1, 7) : a \in apps} |->
        LET of == {a \in apps : SubSeq(a.data, 1, 7) = month} IN
        [accessi |-> Cardinality(of),
         pazienti_unici |-> Cardinality({a.patient_id : a \in of}),
         prestazioni |-> prestazioni_count(of)]]

\* the value get_statistics returns
statistics(ambulatorio, anno, mese, tipo) ==
    LET apps == find_statistics(ambulatorio, anno, mese, tipo) IN
    [anno |-> anno, mese |-> mese, ambulatorio |-> ambulatorio, tipo |-> tipo,
     totale_accessi |-> Cardinality(apps),
     pazienti_unici |-> Cardinality({a.patient_id : a \in apps}),
     prestazioni |-> prestazioni_count(apps),
     dettaglio_mensile |-> monthly_stats(apps)]

get_statistics(ambulatorio, anno, mese, tipo, token) ==
    LET payload == verify_token(token) IN
    IF ScopedByParam(ambulatorio, payload) # 0 THEN Respond("get_statistics", 403)
    ELSE IF ambulatorio = VILLA_GINESTRE /\ tipo = "MED" THEN Respond("get_statistics", 400)
    ELSE /\ ReplyBody("get_statistics", 200, statistics(ambulatorio, anno, mese, tipo))
         /\ UNCHANGED <<db, tasks, now>>

\* stats.get(prest, 0)
Get(count, prest) == IF prest \in DOMAIN count THEN count[prest] ELSE 0

\* the differences, taken the wrong way round
DifferenzeReversed(stats1, stats2) ==
    [accessi |-> stats1.totale_accessi - stats2.totale_accessi,
     pazienti_unici |-> stats1.pazienti_unici - stats2.pazienti_unici,
     prestazioni |->
        [prest \in DOMAIN stats1.prestazioni \cup DOMAIN stats2.prestazioni |->
            Get(stats1.prestazioni, prest) - Get(stats2.prestazioni, prest)]]

\* diff of compare_statistics
Differenze(stats1, stats2) ==
    [accessi |-> stats2.totale_accessi - stats1.totale_accessi,
     pazienti_unici |-> stats2.pazienti_unici - stats1.pazienti_unici,
     prestazioni |->
        [prest \in DOMAIN stats1.prestazioni \cup DOMAIN stats2.prestazioni |->
            Get(stats2.prestazioni, prest) - Get(stats1.prestazioni, prest)]]

\* the year of the second period without its fallback
Periodo2AnnoAsGiven(periodo1_anno, periodo2_anno) == periodo2_anno

\* "periodo2_anno or periodo1_anno": 0 is the omitted year
Periodo2Anno(periodo1_anno, periodo2_anno) ==
    IF periodo2_anno # 0 THEN periodo2_anno ELSE periodo1_anno

compare_statistics(ambulatorio, periodo1_anno, periodo1_mese, periodo2_anno, periodo2_mese, tipo, token) ==
    LET payload == verify_token(token)
        stats1 == statistics(ambulatorio, periodo1_anno, periodo1_mese, tipo)
        stats2 == statistics(ambulatorio, Periodo2Anno(periodo1_anno, periodo2_anno),
                             periodo2_mese, tipo)
    IN
    IF ScopedByParam(ambulatorio, payload) # 0 THEN Respond("compare_statistics", 403)
    ELSE IF ambulatorio = VILLA_GINESTRE /\ tipo = "MED"
         THEN Respond("compare_statistics", 400)
    ELSE /\ ReplyBody("compare_statistics", 200,
                      [periodo1 |-> stats1, periodo2 |-> stats2,
                       differenze |-> Differenze(stats1, stats2)])
         /\ UNCHANGED <<db, tasks, now>>

\* the value get_implant_statistics returns (the static tipo_labels left
\* out).  Every patient_id of the model is a non-empty string, so
\* "if patient_id" holds of each.
implant_statistics(ambulatorio, anno, mese) ==
    LET period == Period(anno, mese)
        schede == {sc \in schede_impianto_picc :
                      sc.ambulatorio = ambulatorio /\ InRange(sc.data_impianto, period)}
        existing_patient_ids == {pt.id : pt \in {q \in patients : q.ambulatorio = ambulatorio}}
        counted == {sc \in schede : sc.patient_id \in existing_patient_ids}
        tipo_counts(some) ==
            [tipo \in {sc.tipo_catetere : sc \in some} |->
                Cardinality({sc \in some : sc.tipo_catetere = tipo})]
    IN  [totale_impianti |-> Cardinality(schede),
         per_tipo |-> tipo_counts(counted),
         dettaglio_mensile |->
            [month_key \in {SubSeq(sc.data_impianto, 1, 7) : sc \in counted} |->
                tipo_counts({sc \in counted : SubSeq(sc.data_impianto, 1, 7) = month_key})]]

get_implant_statistics(ambulatorio, anno, mese, token) ==
    LET payload == verify_token(token) IN
    IF ScopedByParam(ambulatorio, payload) # 0 THEN Respond("get_implant_statistics", 403)
    ELSE /\ ReplyBody("get_implant_statistics", 200,
                      implant_statistics(ambulatorio, anno, mese))
         /\ UNCHANGED <<db, tasks, now>>

----------------------------------------------------------------------------
(* Specification of all handlers, one request at a time *)

Init ==
    /\ patients = {}
    /\ appointments = {}
    /\ schede_medicazione_med = {}
    /\ schede_impianto_picc = {}
    /\ schede_gestione_picc = {}
    /\ photos = {}
    /\ prescrizioni = {}
    /\ resp = [op |-> "none", status |-> 0]
    /\ tasks = [r \in {1, 2} |-> [pc |-> "idle"]]
    /\ now = 1

DocCount ==
    Cardinality(patients) + Cardinality(appointments)
    + Cardinality(schede_medicazione_med) + Cardinality(schede_impianto_picc)
    + Cardinality(schede_gestione_picc) + Cardinality(photos)
    + Cardinality(prescrizioni)

\* the model's bound on the store
Within == DocCount <= MaxDocs

PatientRequests ==
    \/ \E data \in PatientCreate, token \in Tokens : create_patient(data, token) /\ Within'
    \/ \E ambulatorio \in Ambulatorio, token \in Tokens : get_patients(ambulatorio, token)
    \/ \E id \in IdInputs(patients), token \in Tokens : get_patient(id, token)
    \/ \E id \in IdInputs(patients), data \in PatientUpdate, token \in Tokens :
           update_patient(id, data, token)
    \/ \E id \in IdInputs(patients), token \in Tokens : delete_patient(id, token)
    \/ \E id \in IdInputs(patients), token \in Tokens : download_patient_pdf(id, token)
    \/ \E id \in IdInputs(patients), token \in Tokens : download_patient_zip(id, token)

AppointmentRequests ==
    \/ \E data \in AppointmentCreate, token \in Tokens :
           create_appointment(data, token) /\ Within'
    \/ \E ambulatorio \in Ambulatorio, token \in Tokens : get_appointments(ambulatorio, <<>>, <<>>, <<>>, "", token)
    \/ \E id \in IdInputs(appointments), data \in AppointmentPatch, token \in Tokens :
           update_appointment(id, data, token)
    \/ \E id \in IdInputs(appointments), token \in Tokens : delete_appointment(id, token)

SchedaMedicazioneRequests ==
    \/ \E data \in SchedaCreate, token \in Tokens :
           create_scheda_medicazione_med(data, token) /\ Within'
    \/ \E pid \in PatientIdInputs, ambulatorio \in Ambulatorio, token \in Tokens :
           get_schede_medicazione_med(pid, ambulatorio, token)
    \/ \E id \in IdInputs(schede_medicazione_med), token \in Tokens :
           get_scheda_medicazione_med(id, token)
    \/ \E id \in IdInputs(schede_medicazione_med), data \in SchedaPatch, token \in Tokens :
           update_scheda_medicazione_med(id, data, token)
    \/ \E id \in IdInputs(schede_medicazione_med), token \in Tokens :
           delete_scheda_medicazione(id, token)

SchedaImpiantoRequests ==
    \/ \E data \in SchedaCreate, token \in Tokens :
           create_scheda_impianto_picc(data, token) /\ Within'
    \/ \E pid \in PatientIdInputs, ambulatorio \in Ambulatorio, token \in Tokens :
           get_schede_impianto_picc(pid, ambulatorio, token)
    \/ \E id \in IdInputs(schede_impianto_picc), data \in SchedaPatch, token \in Tokens :
           update_scheda_impianto_picc(id, data, token)
    \/ \E id \in IdInputs(schede_impianto_picc), token \in Tokens :
           download_scheda_impianto_pdf(id, token)
    \/ \E id \in IdInputs(schede_impianto_picc), token \in Tokens :
           delete_scheda_impianto(id, token)

SchedaGestioneRequests ==
    \/ \E data \in SchedaGestionePICCCreate, token \in Tokens :
           create_scheda_gestione_picc(data, token) /\ Within'
    \/ \E pid \in PatientIdInputs, ambulatorio \in Ambulatorio, token \in Tokens :
           get_schede_gestione_picc(pid, ambulatorio, token)
    \/ \E id \in IdInputs(schede_gestione_picc), data \in SchedaGestionePatch,
          token \in Tokens : update_scheda_gestione_picc(id, data, token)
    \/ \E id \in IdInputs(schede_gestione_picc), token \in Tokens :
           delete_scheda_gestione(id, token)

PhotoRequests ==
    \/ \E data \in SchedaCreate, token \in Tokens : upload_photo(data, "image", <<"image/", "png">>, token) /\ Within'
    \/ \E pid \in PatientIdInputs, ambulatorio \in Ambulatorio, token \in Tokens :
           get_photos(pid, ambulatorio, token)
    \/ \E id \in IdInputs(photos), token \in Tokens : get_photo(id, token)
    \/ \E id \in IdInputs(photos), token \in Tokens : delete_photo(id, token)

PrescrizioneRequests ==
    \/ \E ambulatorio \in Ambulatorio, token \in Tokens : get_prescrizioni(ambulatorio, token)
    \/ \E data \in PrescrizioneCreate, token \in Tokens :
           create_or_update_prescrizione(data, token) /\ Within'
    \/ \E pid \in PatientIdInputs, ambulatorio \in Ambulatorio, token \in Tokens :
           delete_prescrizione(pid, ambulatorio, token)

Next ==
    \/ \E token \in BadTokens : unauthenticated(token)
    \/ PatientRequests
    \/ AppointmentRequests
    \/ SchedaMedicazioneRequests
    \/ SchedaImpiantoRequests
    \/ SchedaGestioneRequests
    \/ PhotoRequests
    \/ PrescrizioneRequests

Spec == Init /\ [][Next]_vars

----------------------------------------------------------------------------
(* Specification of the scheduler: the handlers that write appointments,   *)
(* around one patient, with up to MaxAppointments stored appointments      *)

\* request bodies of the focused specifications: patients of care type PICC;
\* appointments of one date, time and care type; monthly logs of one month;
\* update mappings over the clinic alone
PICCPatientCreate == {data \in PatientCreate : data.tipo = "PICC"}

OneSlotAppointmentCreate ==
    {data \in AppointmentCreate : data.data = Date(2025, 6, 10) /\ data.tipo = "PICC"}

OneMonthSchedaGestioneCreate == {data \in SchedaGestionePICCCreate : data.mese = "2025-06"}

ClinicPatch == Patches([ambulatorio : Ambulatorio])

\* request bodies of the scheduler specification: appointments of one date and
\* time, either clinic and care type; the update mappings over clinic and care type

SchedulerAppointmentCreate == {data \in AppointmentCreate : data.data = Date(2025, 6, 10)}

SchedulerAppointmentPatch == Patches([ambulatorio : Ambulatorio, tipo : Tipi])

NextAppointments ==
    \/ \E token \in BadTokens : unauthenticated(token)
    \/ \E data \in PICCPatientCreate, token \in Tokens :
           create_patient(data, token) /\ Cardinality(patients') <= 1
    \/ \E id \in IdInputs(patients), token \in Tokens : delete_patient(id, token)
    \/ \E data \in SchedulerAppointmentCreate, token \in Tokens :
           create_appointment(data, token) /\ Cardinality(appointments') <= MaxAppointments
    \/ \E ambulatorio \in Ambulatorio, token \in Tokens : get_appointments(ambulatorio, <<>>, <<>>, <<>>, "", token)
    \/ \E id \in IdInputs(appointments), data \in SchedulerAppointmentPatch, token \in Tokens :
           update_appointment(id, data, token)
    \/ \E id \in IdInputs(appointments), token \in Tokens : delete_appointment(id, token)

SpecAppointments == Init /\ [][NextAppointments]_vars

----------------------------------------------------------------------------
(* Specification of the monthly logs: the handlers that write them, around *)
(* one patient, with up to MaxSchede stored logs                           *)

NextGestione ==
    \/ \E token \in BadTokens : unauthenticated(token)
    \/ \E data \in PatientCreate, token \in Tokens :
           create_patient(data, token) /\ Cardinality(patients') <= 1
    \/ \E id \in IdInputs(patients), token \in Tokens : delete_patient(id, token)
    \/ \E data \in SchedaGestionePICCCreate, token \in Tokens :
           create_scheda_gestione_picc(data, token)
               /\ Cardinality(schede_gestione_picc') <= MaxSchede
    \/ \E pid \in PatientIdInputs, ambulatorio \in Ambulatorio, token \in Tokens :
           get_schede_gestione_picc(pid, ambulatorio, token)
    \/ \E id \in IdInputs(schede_gestione_picc), data \in SchedaGestionePatch,
          token \in Tokens : update_scheda_gestione_picc(id, data, token)
    \/ \E id \in IdInputs(schede_gestione_picc), token \in Tokens :
           delete_scheda_gestione(id, token)

SpecGestione == Init /\ [][NextGestione]_vars

----------------------------------------------------------------------------
(* Specification of the patient registry: the /patients routes alone       *)

NextPatients ==
    \/ \E token \in BadTokens : unauthenticated(token)
    \/ PatientRequests

SpecPatients == Init /\ [][NextPatients]_vars

----------------------------------------------------------------------------
(* Specification of the cascade: patients, one creating handler for each   *)
(* dependent collection, and delete_patient, with up to MaxCascadeDocs     *)
(* stored documents                                                        *)

MaxCascadeDocs == 3

\* request bodies of the cascade specification: the patient_id of a stored
\* patient or of none, under pta_centro
CascadeScheda == {data \in SchedaCreate : data.ambulatorio = "pta_centro"}

CascadeAppointment ==
    {data \in AppointmentCreate :
        data.ambulatorio = "pta_centro" /\ data.data = Date(2025, 6, 10) /\ data.tipo = "PICC"}

CascadeSchedaGestione ==
    {data \in SchedaGestionePICCCreate :
        data.ambulatorio = "pta_centro" /\ data.mese = "2025-06"}

CascadePrescrizione ==
    {data \in PrescrizioneCreate : data.ambulatorio = "pta_centro" /\ data.durata_mesi = 1}

NextCascade ==
    \/ \E token \in BadTokens : unauthenticated(token)
    \/ \E data \in PICCPatientCreate, token \in Tokens :
           create_patient(data, token) /\ DocCount' <= MaxCascadeDocs
    \/ \E id \in IdInputs(patients), token \in Tokens : delete_patient(id, token)
    \/ \E data \in CascadeAppointment, token \in Tokens :
           create_appointment(data, token) /\ DocCount' <= MaxCascadeDocs
    \/ \E data \in CascadeScheda, token \in Tokens :
           create_scheda_medicazione_med(data, token) /\ DocCount' <= MaxCascadeDocs
    \/ \E data \in CascadeScheda, token \in Tokens :
           create_scheda_impianto_picc(data, token) /\ DocCount' <= MaxCascadeDocs
    \/ \E data \in CascadeSchedaGestione, token \in Tokens :
           create_scheda_gestione_picc(data, token) /\ DocCount' <= MaxCascadeDocs
    \/ \E data \in CascadeScheda, token \in Tokens :
           upload_photo(data, "image", <<"image/", "png">>, token) /\ DocCount' <= MaxCascadeDocs
    \/ \E data \in CascadePrescrizione, token \in Tokens :
           create_or_update_prescrizione(data, token) /\ DocCount' <= MaxCascadeDocs

SpecCascade == Init /\ [][NextCascade]_vars

----------------------------------------------------------------------------
(* Specification of the by-id handlers: the creating handlers and every    *)
(* get, update, delete and export of one stored document                   *)

\* request bodies of the by-id specification: forms and attachments of no
\* stored patient, patient updates of the status alone
ScopedPatientUpdate == {data \in PatientUpdate : data.tipo = Null}

ScopedScheda == {data \in SchedaCreate : data.patient_id = NoPatient}

ScopedSchedaGestione ==
    {data \in OneMonthSchedaGestioneCreate : data.patient_id = NoPatient}

NextScoped ==
    \/ \E token \in BadTokens : unauthenticated(token)
    \/ \E data \in PICCPatientCreate, token \in Tokens :
           create_patient(data, token) /\ Within'
    \/ \E id \in Ids(patients), token \in Tokens : get_patient(id, token)
    \/ \E id \in Ids(patients), data \in ScopedPatientUpdate, token \in Tokens :
           update_patient(id, data, token)
    \/ \E id \in Ids(patients), token \in Tokens : delete_patient(id, token)
    \/ \E id \in Ids(patients), token \in Tokens : download_patient_pdf(id, token)
    \/ \E id \in Ids(patients), token \in Tokens : download_patient_zip(id, token)
    \/ \E data \in OneSlotAppointmentCreate, token \in Tokens :
           create_appointment(data, token) /\ Within'
    \/ \E id \in Ids(appointments), data \in ClinicPatch, token \in Tokens :
           update_appointment(id, data, token)
    \/ \E id \in Ids(appointments), token \in Tokens : delete_appointment(id, token)
    \/ \E data \in ScopedScheda, token \in Tokens :
           create_scheda_medicazione_med(data, token) /\ Within'
    \/ \E id \in Ids(schede_medicazione_med), token \in Tokens :
           get_scheda_medicazione_med(id, token)
    \/ \E id \in Ids(schede_medicazione_med), data \in ClinicPatch, token \in Tokens :
           update_scheda_medicazione_med(id, data, token)
    \/ \E id \in Ids(schede_medicazione_med), token \in Tokens :
           delete_scheda_medicazione(id, token)
    \/ \E data \in ScopedScheda, token \in Tokens :
           create_scheda_impianto_picc(data, token) /\ Within'
    \/ \E id \in Ids(schede_impianto_picc), data \in ClinicPatch, token \in Tokens :
           update_scheda_impianto_picc(id, data, token)
    \/ \E id \in Ids(schede_impianto_picc), token \in Tokens :
           download_scheda_impianto_pdf(id, token)
    \/ \E id \in Ids(schede_impianto_picc), token \in Tokens :
           delete_scheda_impianto(id, token)
    \/ \E data \in ScopedSchedaGestione, token \in Tokens :
           create_scheda_gestione_picc(data, token) /\ Within'
    \/ \E id \in Ids(schede_gestione_picc), data \in ClinicPatch,
          token \in Tokens : update_scheda_gestione_picc(id, data, token)
    \/ \E id \in Ids(schede_gestione_picc), token \in Tokens :
           delete_scheda_gestione(id, token)
    \/ \E data \in ScopedScheda, token \in Tokens : upload_photo(data, "image", <<"image/", "png">>, token) /\ Within'
    \/ \E id \in Ids(photos), token \in Tokens : get_photo(id, token)
    \/ \E id \in Ids(photos), token \in Tokens : delete_photo(id, token)

SpecScoped == Init /\ [][NextScoped]_vars

----------------------------------------------------------------------------
(* Specification of the prescriptions: the /prescrizioni routes alone, one *)
(* request at a time, with up to MaxPrescrizioni stored prescriptions.     *)
(* The routes never read db.patients: a patient_id is whatever the client  *)
(* sends.                                                                  *)

MaxPrescrizioni == 2

PrescrizioneUpsert == PrescrizioneBodies({1, 2}, Dates)

NextPrescrizioni ==
    \/ \E token \in BadTokens : unauthenticated(token)
    \/ \E ambulatorio \in Ambulatorio, token \in Tokens : get_prescrizioni(ambulatorio, token)
    \/ \E data \in PrescrizioneUpsert, token \in Tokens :
           create_or_update_prescrizione(data, token)
           /\ Cardinality(prescrizioni') <= MaxPrescrizioni
    \/ \E pid \in {1, 2}, ambulatorio \in Ambulatorio, token \in Tokens :
           delete_prescrizione(pid, ambulatorio, token)

SpecPrescrizioni == Init /\ [][NextPrescrizioni]_vars

----------------------------------------------------------------------------
(* Specifications of the statistics: appointments on the days around the   *)
(* ends of January and of the year 2025, and the two statistics routes     *)

MaxStatAppointments == 2

\* the days of the appointments, as (year, month, day)
StatDays == {<<2025, 1, 31>>, <<2025, 2, 1>>, <<2025, 12, 31>>, <<2026, 1, 1>>}

NextStatistics ==
    \/ \E token \in BadTokens : unauthenticated(token)
    \/ \E data \in PICCPatientCreate, token \in {"Domenico"} :
           /\ data.ambulatorio = "pta_centro"
           /\ create_patient(data, token)
           /\ Cardinality(patients') <= 1
    \/ \E data \in AppointmentBodies({Date(t[1], t[2], t[3]) : t \in StatDays},
                                     {<<"medicazione_semplice">>}),
          token \in {"Domenico"} :
           /\ data.patient_id \in Ids(patients)
           /\ create_appointment(data, token)
           /\ Cardinality(appointments') <= MaxStatAppointments
    \/ \E ambulatorio \in Ambulatorio, mese \in {NoMese, 1, 12},
          tipo \in Tipi \cup {NoTipo}, token \in {"Domenico"} :
           get_statistics(ambulatorio, 2025, mese, tipo, token)

SpecStatistics == Init /\ [][NextStatistics]_vars

MaxListAppointments == 2

\* Specification of the appointment list: appointments of two days and
\* two times of one clinic, listed by exact date, by range, by both or by none
NextListing ==
    \/ \E token \in BadTokens : unauthenticated(token)
    \/ \E data \in PICCPatientCreate, token \in {"Domenico"} :
           create_patient(data, token) /\ Cardinality(patients') <= 1
    \/ \E data \in [patient_id : Ids(patients), ambulatorio : Ambulatorio,
                     data : {Date(2025, 6, d) : d \in 9..10},
                     ora : Times \cup {Decimal02(10) \o <<58>> \o Decimal02(30)},
                     tipo : {"PICC"}, prestazioni : {<<>>}],
          token \in {"Domenico"} :
           create_appointment(data, token)
               /\ Cardinality(appointments') <= MaxListAppointments
    \/ \E ambulatorio \in Ambulatorio, data \in {<<>>, Date(2025, 6, 9)},
          data_from \in {<<>>, Date(2025, 6, 10)}, data_to \in {<<>>, Date(2025, 6, 10)},
          token \in {"Domenico"} :
           get_appointments(ambulatorio, data, data_from, data_to, "", token)

SpecListing == Init /\ [][NextListing]_vars

MaxOutcomeAppointments == 2
MaxOutcomeSchede == 2

\* Specification of the outcomes: the creates the errors of which are the
\* invalid assignment, the full slot and the second log of a month, beside
\* reads, lists, the statistics, the comparison and an export, by a token of
\* either clinic set and by an invalid one
NextOutcomes ==
    \/ \E token \in BadTokens : unauthenticated(token)
    \/ \E data \in PatientCreate, token \in Tokens :
           create_patient(data, token) /\ Cardinality(patients') <= 1
    \/ \E id \in IdInputs(patients), token \in Tokens : get_patient(id, token)
    \/ \E id \in IdInputs(patients), token \in Tokens : download_patient_pdf(id, token)
    \/ \E data \in OneSlotAppointmentCreate, token \in Tokens :
           create_appointment(data, token)
               /\ Cardinality(appointments') <= MaxOutcomeAppointments
    \/ \E ambulatorio \in Ambulatorio, token \in Tokens :
           get_appointments(ambulatorio, <<>>, <<>>, <<>>, "", token)
    \/ \E id \in IdInputs(appointments), token \in Tokens : delete_appointment(id, token)
    \/ \E data \in OneMonthSchedaGestioneCreate, token \in Tokens :
           create_scheda_gestione_picc(data, token)
               /\ Cardinality(schede_gestione_picc') <= MaxOutcomeSchede
    \/ \E ambulatorio \in Ambulatorio, tipo \in {NoTipo, "MED"}, token \in Tokens :
           get_statistics(ambulatorio, 2025, NoMese, tipo, token)
    \/ \E ambulatorio \in Ambulatorio, tipo \in {NoTipo, "MED"}, token \in Tokens :
           compare_statistics(ambulatorio, 2025, 6, 0, NoMese, tipo, token)

SpecOutcomes == Init /\ [][NextOutcomes]_vars

MaxReleaseAppointments == 2

\* Specification of the release of a slot: up to two patients of pta_centro
\* and the appointments of one slot of it, created and deleted, and the
\* patients deleted with their appointments
NextRelease ==
    \/ \E token \in BadTokens : unauthenticated(token)
    \/ \E data \in PICCPatientCreate, token \in Tokens :
           /\ data.ambulatorio = "pta_centro"
           /\ create_patient(data, token)
           /\ Cardinality(patients') <= 2
    \/ \E id \in IdInputs(patients), token \in Tokens : delete_patient(id, token)
    \/ \E data \in CascadeAppointment, token \in Tokens :
           create_appointment(data, token)
               /\ Cardinality(appointments') <= MaxReleaseAppointments
    \/ \E id \in IdInputs(appointments), token \in Tokens : delete_appointment(id, token)

SpecRelease == Init /\ [][NextRelease]_vars

MaxPhotos == 2

\* Specification of the attachments: uploads of every content type, with
\* the file type sent or left out
NextPhotos ==
    \/ \E token \in BadTokens : unauthenticated(token)
    \/ \E data \in ScopedScheda, file_type \in {Null, "image", "pdf"},
          mime_type \in MimeTypes, token \in Tokens :
           upload_photo(data, file_type, mime_type, token)
               /\ Cardinality(photos') <= MaxPhotos

SpecPhotos == Init /\ [][NextPhotos]_vars

MaxClock == 2

\* time passes between two requests
tick ==
    /\ now < MaxClock
    /\ now' = now + 1
    /\ UNCHANGED <<db, resp, tasks>>

\* Specification of the patient's name: one patient, updates of the first
\* and last name, and appointments of one slot
NextNames ==
    \/ \E token \in BadTokens : unauthenticated(token)
    \/ tick
    \/ \E data \in PICCPatientCreate, token \in {"Domenico"} :
           /\ data.ambulatorio = "pta_centro"
           /\ create_patient(data, token)
           /\ Cardinality(patients') <= 1
    \/ \E id \in Ids(patients), data \in PatientUpdates, token \in {"Domenico"} :
           /\ data.nome # "Anna" /\ data.cognome # "Rossi"
           /\ data.tipo = Null /\ data.status = Null
           /\ update_patient(id, data, token)
    \/ \E data \in CascadeAppointment, token \in {"Domenico"} :
           create_appointment(data, token)

SpecNames == Init /\ [][NextNames]_vars

MaxMedicazioni == 2

\* Specification of the dressing records: create, and get by id
NextMedicazioni ==
    \/ \E token \in BadTokens : unauthenticated(token)
    \/ \E body \in SchedaMedicazioneBodies, token \in Tokens :
           create_scheda_medicazione_med(SchedaMedicazioneMEDCreate(body), token)
               /\ Cardinality(schede_medicazione_med') <= MaxMedicazioni
    \/ \E id \in IdInputs(schede_medicazione_med), token \in Tokens :
           get_scheda_medicazione_med(id, token)

SpecMedicazioni == Init /\ [][NextMedicazioni]_vars

MaxImplants == 2

\* implant records on either side of the end of January 2025, of two catheter
\* types, for a stored patient or for none
NextImplants ==
    \/ \E token \in BadTokens : unauthenticated(token)
    \/ \E data \in PICCPatientCreate, token \in {"Domenico"} :
           create_patient(data, token) /\ Cardinality(patients') <= 1
    \/ \E data \in [patient_id : PatientIdInputs, ambulatorio : Ambulatorio,
                     data_impianto : {Date(2025, 1, 31), Date(2025, 2, 1)},
                     tipo_catetere : {"picc", "midline"}],
          token \in {"Domenico"} :
           create_scheda_impianto_picc(data, token)
               /\ Cardinality(schede_impianto_picc') <= MaxImplants
    \/ \E ambulatorio \in Ambulatorio, mese \in {NoMese, 1}, token \in {"Domenico"} :
           get_implant_statistics(ambulatorio, 2025, mese, token)

SpecImplants == Init /\ [][NextImplants]_vars

MaxCompareAppointments == 2

\* the request parameters of the comparisons: January or the year 2025
\* against January or February, the second year given or omitted
NextCompare ==
    \/ \E token \in BadTokens : unauthenticated(token)
    \/ \E data \in PICCPatientCreate, token \in {"Domenico"} :
           /\ data.ambulatorio = "pta_centro"
           /\ create_patient(data, token)
           /\ Cardinality(patients') <= 2
    \/ \E data \in AppointmentBodies({Date(2025, 1, 31), Date(2025, 2, 1)},
                                     {<<"medicazione_semplice">>,
                                      <<"medicazione_semplice", "irrigazione_catetere">>}),
          token \in {"Domenico"} :
           /\ data.ambulatorio = "pta_centro"
           /\ data.tipo = "PICC"
           /\ data.patient_id \in Ids(patients)
           /\ create_appointment(data, token)
           /\ Cardinality(appointments') <= MaxCompareAppointments
    \/ \E periodo1_mese \in {NoMese, 1}, periodo2_anno \in {0, 2025},
          periodo2_mese \in {1, 2}, tipo \in {NoTipo, "PICC"}, token \in {"Domenico"} :
           compare_statistics("pta_centro", 2025, periodo1_mese, periodo2_anno,
                              periodo2_mese, tipo, token)

SpecCompare == Init /\ [][NextCompare]_vars

----------------------------------------------------------------------------
(* The two read-then-write handlers, step by step.  A handler runs without *)
(* interruption from one awaited store call to the next; between two such  *)
(* calls the event loop may run any other request.  tasks[r] is request r  *)
(* in flight: its position (pc), its handler (op), its body (data), what   *)
(* its read returned (existing) and, once answered, its status.            *)

Requests == {1, 2}

\* stored appointments, and stored monthly logs, in the step-by-step specifications
MaxRaceAppointments == 3
MaxRaceSchede == 2

Idle == [pc |-> "idle"]


\* the request is answered: raise HTTPException(status), or return
Done(r, op, data, status) ==
    /\ tasks' = [tasks EXCEPT ![r] = [pc |-> "done", op |-> op, data |-> data,
                                      status |-> status]]
    /\ Reply(op, status)

\* the response is sent and the request leaves the event loop
finish(r) ==
    /\ tasks[r].pc = "done"
    /\ tasks' = [tasks EXCEPT ![r] = Idle]
    /\ UNCHANGED <<db, resp, now>>

\* create_appointment up to its first awaited result: the clinic check, then
\* patient = await db.patients.find_one(...); 404 if there is none
create_appointment_find_one(r, data, token) ==
    LET payload == verify_token(token) IN
    /\ tasks[r].pc = "idle"
    /\ IF ScopedByParam(data.ambulatorio, payload) # 0
            THEN Done(r, "create_appointment", data, 403)
       ELSE IF find_one(patients, data.patient_id) = {}
            THEN Done(r, "create_appointment", data, 404)
       ELSE /\ \E patient \in find_one(patients, data.patient_id) :
                    tasks' = [tasks EXCEPT ![r] = [pc |-> "count", op |-> "create_appointment",
                                                   data |-> data, patient |-> patient]]
            /\ UNCHANGED resp
    /\ UNCHANGED <<db, now>>

\* existing = await db.appointments.count_documents(...); 400 if existing >= 2
create_appointment_count_documents(r) ==
    LET data == tasks[r].data
        existing == count_documents(appointments, data) IN
    /\ tasks[r].pc = "count"
    /\ IF SlotFull(existing)
            THEN Done(r, "create_appointment", data, 400)
       ELSE /\ tasks' = [tasks EXCEPT ![r] = [pc |-> "insert", op |-> "create_appointment",
                                              data |-> data, patient |-> tasks[r].patient,
                                              existing |-> existing]]
            /\ UNCHANGED resp
    /\ UNCHANGED <<db, now>>

\* the insert made conditional on the slot's count at the time of writing
create_appointment_insert_if_free(r) ==
    LET data == tasks[r].data IN
    /\ tasks[r].pc = "insert"
    /\ tasks[r].op = "create_appointment"
    /\ IF SlotFull(count_documents(appointments, data))
       THEN Done(r, "create_appointment", data, 400) /\ UNCHANGED <<db, now>>
       ELSE /\ appointments' = appointments \cup {Appointment(NewId(Ids(appointments)), data,
                                                                tasks[r].patient)}
            /\ tasks' = [tasks EXCEPT ![r] = [pc |-> "done", op |-> "create_appointment",
                                              data |-> data, existing |-> tasks[r].existing,
                                              status |-> 200]]
            /\ Reply("create_appointment", 200)
            /\ UNCHANGED <<patients, schede_medicazione_med, schede_impianto_picc,
                           schede_gestione_picc, photos, prescrizioni, now>>

\* await db.appointments.insert_one(doc); return appointment
create_appointment_insert_one(r) ==
    LET data == tasks[r].data IN
    /\ tasks[r].pc = "insert"
    /\ tasks[r].op = "create_appointment"
    /\ appointments' = appointments \cup {Appointment(NewId(Ids(appointments)), data,
                                                                tasks[r].patient)}
    /\ tasks' = [tasks EXCEPT ![r] = [pc |-> "done", op |-> "create_appointment",
                                      data |-> data, existing |-> tasks[r].existing,
                                      status |-> 200]]
    /\ Reply("create_appointment", 200)
    /\ UNCHANGED <<patients, schede_medicazione_med, schede_impianto_picc,
                   schede_gestione_picc, photos, prescrizioni, now>>

\* create_scheda_gestione_picc up to its awaited result: the clinic check,
\* then existing = await db.schede_gestione_picc.find_one(...); 400 if found
create_scheda_gestione_picc_find_one(r, data, token) ==
    LET payload == verify_token(token)
        existing == find_scheda_gestione(schede_gestione_picc, data) IN
    /\ tasks[r].pc = "idle"
    /\ IF ScopedByParam(data.ambulatorio, payload) # 0
            THEN Done(r, "create_scheda_gestione_picc", data, 403)
       ELSE IF existing # {}
            THEN Done(r, "create_scheda_gestione_picc", data, 400)
       ELSE /\ tasks' = [tasks EXCEPT ![r] = [pc |-> "insert",
                                              op |-> "create_scheda_gestione_picc",
                                              data |-> data, existing |-> existing]]
            /\ UNCHANGED resp
    /\ UNCHANGED <<db, now>>

\* the insert made conditional on the log's absence at the time of writing
create_scheda_gestione_picc_insert_if_absent(r) ==
    LET data == tasks[r].data IN
    /\ tasks[r].pc = "insert"
    /\ tasks[r].op = "create_scheda_gestione_picc"
    /\ IF find_scheda_gestione(schede_gestione_picc, data) # {}
       THEN Done(r, "create_scheda_gestione_picc", data, 400) /\ UNCHANGED <<db, now>>
       ELSE /\ schede_gestione_picc' =
                    schede_gestione_picc
                        \cup {SchedaGestionePICC(NewId(Ids(schede_gestione_picc)), data)}
            /\ tasks' = [tasks EXCEPT ![r] = [pc |-> "done",
                                              op |-> "create_scheda_gestione_picc",
                                              data |-> data, existing |-> tasks[r].existing,
                                              status |-> 200]]
            /\ Reply("create_scheda_gestione_picc", 200)
            /\ UNCHANGED <<patients, appointments, schede_medicazione_med,
                           schede_impianto_picc, photos, prescrizioni, now>>

\* await db.schede_gestione_picc.insert_one(doc); return scheda
create_scheda_gestione_picc_insert_one(r) ==
    LET data == tasks[r].data IN
    /\ tasks[r].pc = "insert"
    /\ tasks[r].op = "create_scheda_gestione_picc"
    /\ schede_gestione_picc' =
            schede_gestione_picc
                \cup {SchedaGestionePICC(NewId(Ids(schede_gestione_picc)), data)}
    /\ tasks' = [tasks EXCEPT ![r] = [pc |-> "done", op |-> "create_scheda_gestione_picc",
                                      data |-> data, existing |-> tasks[r].existing,
                                      status |-> 200]]
    /\ Reply("create_scheda_gestione_picc", 200)
    /\ UNCHANGED <<patients, appointments, schede_medicazione_med,
                   schede_impianto_picc, photos, prescrizioni, now>>

\* Specification of concurrent appointment creation around one patient
NextRaceAppointments ==
    \/ \E token \in BadTokens : unauthenticated(token)
    \/ \E data \in PICCPatientCreate, token \in Tokens :
           create_patient(data, token) /\ Cardinality(patients') <= 1
    \/ \E r \in Requests, data \in OneSlotAppointmentCreate, token \in Tokens :
           create_appointment_find_one(r, data, token)
    \/ \E r \in Requests : create_appointment_count_documents(r)
    \/ \E r \in Requests :
           create_appointment_insert_one(r)
               /\ Cardinality(appointments') <= MaxRaceAppointments
    \/ \E r \in Requests : finish(r)

SpecRaceAppointments == Init /\ [][NextRaceAppointments]_vars

\* Specification of concurrent monthly-log creation around one patient
NextRaceGestione ==
    \/ \E token \in BadTokens : unauthenticated(token)
    \/ \E data \in PICCPatientCreate, token \in Tokens :
           create_patient(data, token) /\ Cardinality(patients') <= 1
    \/ \E r \in Requests, data \in OneMonthSchedaGestioneCreate, token \in Tokens :
           create_scheda_gestione_picc_find_one(r, data, token)
    \/ \E r \in Requests :
           create_scheda_gestione_picc_insert_one(r)
               /\ Cardinality(schede_gestione_picc') <= MaxRaceSchede
    \/ \E r \in Requests : finish(r)

SpecRaceGestione == Init /\ [][NextRaceGestione]_vars

----------------------------------------------------------------------------
(* delete_patient, one awaited store call at a time.  The handler has no   *)
(* try/except and the store no transaction: a store call that raises ends  *)
(* the request with 500 where it stands.  tasks[r].step is the next call:  *)
(* 0 the delete_one of the patient, 1..6 the delete_many of the dependent  *)
(* collections in the order of the code.                                   *)

\* patient = await db.patients.find_one(...): 404, 403, or go on
delete_patient_find_one(r, patient_id, token) ==
    LET payload == verify_token(token) IN
    /\ tasks[r].pc = "idle"
    /\ IF ScopedById(patients, patient_id, payload) # 0
       THEN Done(r, "delete_patient", [patient_id |-> patient_id],
                 ScopedById(patients, patient_id, payload))
       ELSE /\ \E patient \in find_one(patients, patient_id) :
                   tasks' = [tasks EXCEPT ![r] =
                                [pc |-> "delete", op |-> "delete_patient",
                                 data |-> [patient_id |-> patient_id],
                                 patient |-> patient, step |-> 0]]
            /\ UNCHANGED resp
    /\ UNCHANGED <<db, now>>

\* the store after the awaited call number step for patient_id
delete_patient_call(step, patient_id) ==
    /\ patients' = IF step = 0 THEN delete_one(patients, patient_id) ELSE patients
    /\ schede_impianto_picc' =
          IF step = 1 THEN delete_many(schede_impianto_picc, patient_id)
          ELSE schede_impianto_picc
    /\ schede_gestione_picc' =
          IF step = 2 THEN delete_many(schede_gestione_picc, patient_id)
          ELSE schede_gestione_picc
    /\ schede_medicazione_med' =
          IF step = 3 THEN delete_many(schede_medicazione_med, patient_id)
          ELSE schede_medicazione_med
    /\ appointments' =
          IF step = 4 THEN delete_many(appointments, patient_id) ELSE appointments
    /\ prescrizioni' =
          IF step = 5 THEN delete_many(prescrizioni, patient_id) ELSE prescrizioni
    /\ photos' = IF step = 6 THEN delete_many(photos, patient_id) ELSE photos

\* the next awaited delete completes; after the last one the handler returns
delete_patient_await(r) ==
    /\ tasks[r].pc = "delete"
    /\ delete_patient_call(tasks[r].step, tasks[r].data.patient_id)
    /\ IF tasks[r].step = 6
       THEN Done(r, "delete_patient", tasks[r].data, 200)
       ELSE /\ tasks' = [tasks EXCEPT ![r].step = @ + 1]
            /\ UNCHANGED resp
    /\ UNCHANGED now

\* a failing request that puts the patient back before it answers
delete_patient_raise_restoring(r) ==
    /\ tasks[r].pc = "delete"
    /\ tasks' = [tasks EXCEPT ![r] = [@ EXCEPT !.pc = "done"] @@ [status |-> 500]]
    /\ Reply("delete_patient", 500)
    /\ patients' = patients \cup {tasks[r].patient}
    /\ UNCHANGED <<appointments, schede_medicazione_med, schede_impianto_picc,
                   schede_gestione_picc, photos, prescrizioni, now>>

\* the next awaited delete raises: the exception leaves the handler, the
\* request is answered 500 and no later call is made
delete_patient_raise(r) ==
    /\ tasks[r].pc = "delete"
    /\ tasks' = [tasks EXCEPT ![r] = [@ EXCEPT !.pc = "done"] @@ [status |-> 500]]
    /\ Reply("delete_patient", 500)
    /\ UNCHANGED <<db, now>>

\* stored documents in the specification of the delete steps
MaxDeleteDocs == 2

NextDeleteSteps ==
    \/ \E token \in BadTokens : unauthenticated(token)
    \/ \E data \in PICCPatientCreate, token \in Tokens :
           create_patient(data, token) /\ DocCount' <= MaxDeleteDocs
    \/ \E data \in CascadeScheda, token \in Tokens :
           create_scheda_impianto_picc(data, token) /\ DocCount' <= MaxDeleteDocs
    \/ \E data \in CascadeScheda, token \in Tokens :
           upload_photo(data, "image", <<"image/", "png">>, token) /\ DocCount' <= MaxDeleteDocs
    \/ \E r \in {1}, id \in IdInputs(patients), token \in Tokens :
           delete_patient_find_one(r, id, token)
    \/ \E r \in {1} : delete_patient_await(r)
    \/ \E r \in {1} : delete_patient_raise(r)
    \/ \E r \in {1} : finish(r)

SpecDeleteSteps == Init /\ [][NextDeleteSteps]_vars

----------------------------------------------------------------------------
(* Properties *)

Slots == [ambulatorio : Ambulatorio, data : Dates, ora : Times, tipo : Tipi]

InSlot(coll, slot) ==
    {a \in coll : /\ a.ambulatorio = slot.ambulatorio /\ a.data = slot.data
                  /\ a.ora = slot.ora /\ a.tipo = slot.tipo}

Allowed(token) == USERS[token].ambulatori

\* C1: for every (clinic, date, time, careType) the number of stored
\* appointments matching all four fields never exceeds 2, after any sequence
\* of create, update and delete of appointments and deletes of patients.
C1_SlotCapacity ==
    \A slot \in Slots : Cardinality(InSlot(appointments, slot)) <= 2

\* C2: a create_appointment by an authorized principal for an existing
\* patient fails with 400 and inserts nothing when its slot already holds 2
\* appointments, and otherwise succeeds and inserts exactly one appointment,
\* the one requested.
C2_CreateAppointmentCapacity ==
    [][resp'.op = "create_appointment" =>
       \A data \in AppointmentCreate, token \in Tokens :
          (/\ data.ambulatorio \in Allowed(token)
           /\ \E p \in patients : p.id = data.patient_id
           /\ create_appointment(data, token))
          => IF Cardinality(InSlot(appointments, data)) >= 2
             THEN /\ resp' = [op |-> "create_appointment", status |-> 400]
                  /\ appointments' = appointments
             ELSE /\ resp' = [op |-> "create_appointment", status |-> 200]
                  /\ appointments \subseteq appointments'
                  /\ Cardinality(appointments') = Cardinality(appointments) + 1
                  /\ \A a \in appointments' \ appointments :
                        /\ a.patient_id = data.patient_id
                        /\ a \in InSlot(appointments', data)]_vars

\* C2 witness: a create was refused with 400 on a slot holding 2 appointments
C2_Witness ==
    /\ resp = [op |-> "create_appointment", status |-> 400]
    /\ \E slot \in Slots : Cardinality(InSlot(appointments, slot)) = 2

\* C3: every patient stored under villa_ginestre has careType PICC.
C3_VillaGinestreOnlyPICC ==
    \A p \in patients : p.ambulatorio = VILLA_GINESTRE => p.tipo = "PICC"

\* C4: create_patient by an authorized principal stores nothing and answers
\* 400 for villa_ginestre with careType MED or PICC_MED; in every other case
\* it stores exactly one patient, with the clinic and careType requested and
\* status in_cura.
C4_CreatePatientAssignment ==
    [][resp'.op = "create_patient" =>
       \A data \in PatientCreate, token \in Tokens :
          (data.ambulatorio \in Allowed(token) /\ create_patient(data, token))
          => IF data.ambulatorio = "villa_ginestre" /\ data.tipo \in {"MED", "PICC_MED"}
             THEN /\ resp' = [op |-> "create_patient", status |-> 400]
                  /\ patients' = patients
             ELSE /\ resp' = [op |-> "create_patient", status |-> 201]
                  /\ patients \subseteq patients'
                  /\ Cardinality(patients') = Cardinality(patients) + 1
                  /\ \A p \in patients' \ patients :
                        /\ p.ambulatorio = data.ambulatorio
                        /\ p.tipo = data.tipo
                        /\ p.status = "in_cura"]_vars

\* C4 witness: a create_patient was refused with 400 and no patient is stored
C4_Witness ==
    /\ resp = [op |-> "create_patient", status |-> 400]
    /\ patients = {}

\* C5: for every (patient, clinic, month) at most one monthly log is stored,
\* after any sequence of create, update and delete of monthly logs.
C5_OneLogPerPeriod ==
    \A s1, s2 \in schede_gestione_picc :
        (s1.patient_id = s2.patient_id /\ s1.ambulatorio = s2.ambulatorio
            /\ s1.mese = s2.mese) => s1 = s2

Dependents ==
    schede_impianto_picc \cup schede_gestione_picc \cup schede_medicazione_med
        \cup appointments \cup prescrizioni \cup photos

\* C6: when delete_patient completes, the patient is gone and none of the
\* six dependent collections holds a document with that patient_id.
C6_CascadeDelete ==
    [][(resp' = [op |-> "delete_patient", status |-> 200]
            /\ (resp # resp' \/ patients # patients'))
          => \E id \in Ids(patients) :
                /\ id \notin Ids(patients')
                /\ Ids(patients') = Ids(patients) \ {id}
                /\ \A d \in Dependents' : d.patient_id # id]_vars

\* C6 witness: delete_patient has completed and a document of another stored
\* patient is still stored
C6_Witness ==
    /\ resp = [op |-> "delete_patient", status |-> 200]
    /\ \E d \in Dependents : d.patient_id \in Ids(patients)

\* the request is answered 403 and nothing stored changes
Denied == resp'.status = 403 /\ UNCHANGED db

\* the stored document with this id lies outside the clinics of the token
Hidden(coll, id, token) == \E d \in coll : d.id = id /\ d.ambulatorio \notin Allowed(token)

\* the by-id handler op, given as its steps on (id, token), denies every
\* request for a document of coll outside the token's clinics
DeniesHidden(op, coll, Step(_, _)) ==
    resp'.op = op =>
        \A token \in Tokens : \A id \in Ids(coll) :
            (Hidden(coll, id, token) /\ Step(id, token)) => Denied

\* a step of a by-id handler on a document outside the token's clinics is
\* denied, whatever the mapping sent with it
ByIdScoped ==
    /\ DeniesHidden("get_patient", patients, get_patient)
    /\ DeniesHidden("update_patient", patients,
                    LAMBDA id, token : \E data \in PatientUpdate :
                                            update_patient(id, data, token))
    /\ DeniesHidden("delete_patient", patients, delete_patient)
    /\ DeniesHidden("download_patient_pdf", patients, download_patient_pdf)
    /\ DeniesHidden("download_patient_zip", patients, download_patient_zip)
    /\ DeniesHidden("update_appointment", appointments,
                    LAMBDA id, token : \E data \in AppointmentPatch :
                                            update_appointment(id, data, token))
    /\ DeniesHidden("delete_appointment", appointments, delete_appointment)
    /\ DeniesHidden("get_scheda_medicazione_med", schede_medicazione_med,
                    get_scheda_medicazione_med)
    /\ DeniesHidden("update_scheda_medicazione_med", schede_medicazione_med,
                    LAMBDA id, token : \E data \in SchedaPatch :
                                            update_scheda_medicazione_med(id, data, token))
    /\ DeniesHidden("delete_scheda_medicazione", schede_medicazione_med,
                    delete_scheda_medicazione)
    /\ DeniesHidden("update_scheda_impianto_picc", schede_impianto_picc,
                    LAMBDA id, token : \E data \in SchedaPatch :
                                            update_scheda_impianto_picc(id, data, token))
    /\ DeniesHidden("download_scheda_impianto_pdf", schede_impianto_picc,
                    download_scheda_impianto_pdf)
    /\ DeniesHidden("delete_scheda_impianto", schede_impianto_picc, delete_scheda_impianto)
    /\ DeniesHidden("update_scheda_gestione_picc", schede_gestione_picc,
                    LAMBDA id, token : \E data \in SchedaGestionePatch :
                                            update_scheda_gestione_picc(id, data, token))
    /\ DeniesHidden("delete_scheda_gestione", schede_gestione_picc, delete_scheda_gestione)
    /\ DeniesHidden("get_photo", photos, get_photo)
    /\ DeniesHidden("delete_photo", photos, delete_photo)

\* a step of a handler that takes the clinic as a parameter of the request
\* (create, list, and the three prescription handlers) is denied when that
\* clinic is outside the token's clinics
ParamScoped ==
    \A token \in Tokens : \A ambulatorio \in Ambulatorio \ Allowed(token) :
        /\ \A tipo \in PatientType :
              create_patient([tipo |-> tipo, ambulatorio |-> ambulatorio], token) => Denied
        /\ get_patients(ambulatorio, token) => Denied
        /\ get_appointments(ambulatorio, <<>>, <<>>, <<>>, "", token) => Denied
        /\ \A data \in AppointmentCreate :
              data.ambulatorio = ambulatorio => (create_appointment(data, token) => Denied)
        /\ \A data \in SchedaCreate : data.ambulatorio = ambulatorio =>
              /\ create_scheda_medicazione_med(data, token) => Denied
              /\ create_scheda_impianto_picc(data, token) => Denied
              /\ upload_photo(data, "image", <<"image/", "png">>, token) => Denied
        /\ \A data \in SchedaGestionePICCCreate : data.ambulatorio = ambulatorio =>
              (create_scheda_gestione_picc(data, token) => Denied)
        /\ \A pid \in PatientIdInputs :
              /\ get_schede_medicazione_med(pid, ambulatorio, token) => Denied
              /\ get_schede_impianto_picc(pid, ambulatorio, token) => Denied
              /\ get_schede_gestione_picc(pid, ambulatorio, token) => Denied
              /\ get_photos(pid, ambulatorio, token) => Denied
              /\ delete_prescrizione(pid, ambulatorio, token) => Denied
        /\ get_prescrizioni(ambulatorio, token) => Denied
        /\ \A data \in PrescrizioneCreate : data.ambulatorio = ambulatorio =>
              (create_or_update_prescrizione(data, token) => Denied)

\* C7: every operation on a clinic-scoped entity (create, list, get, update,
\* delete, of patients, appointments, the three forms, attachments and
\* prescriptions) is denied with 403 when its target clinic is not one of
\* the principal's clinics; the prescription handlers included.
C7_EveryOperationScoped == [][ByIdScoped /\ ParamScoped]_vars

\* C8: a by-id operation (get, update, delete, export) on a patient,
\* appointment, dressing record, implant record, monthly log or attachment
\* whose STORED clinic is not one of the principal's clinics is answered 403
\* whatever else the request carries, and leaves every collection unchanged.
C8_ByIdForbidden == [][ByIdScoped]_vars

\* C8 witness: a by-id request was answered 403 while a document of that
\* collection is stored under villa_ginestre, outside Giovanna's clinics
C8_Witness ==
    /\ resp.status = 403
    /\ \/ resp.op = "download_scheda_impianto_pdf"
          /\ \E d \in schede_impianto_picc : d.ambulatorio \notin Allowed("Giovanna")
       \/ resp.op = "update_scheda_medicazione_med"
          /\ \E d \in schede_medicazione_med : d.ambulatorio \notin Allowed("Giovanna")

\* C9: two create_appointment requests for one slot, interleaved between the
\* count and the insert, both succeed although one appointment was stored:
\* a request whose count saw fewer than 2 inserts its appointment and
\* answers 200 whatever the slot holds by then, so the slot can hold 3.
C9_InsertIgnoresLaterCount ==
    [][\A r \in Requests :
          (/\ tasks[r].pc = "insert"
           /\ tasks[r].op = "create_appointment"
           /\ tasks'[r].pc = "done")
          => /\ tasks'[r].status = 200
             /\ tasks[r].existing < 2
             /\ appointments \subseteq appointments'
             /\ Cardinality(InSlot(appointments', tasks[r].data))
                    = Cardinality(InSlot(appointments, tasks[r].data)) + 1]_vars

\* C9 witness: both requests counted 1 stored appointment in the slot, both
\* were answered 200, and the slot holds 3 appointments
C9_Witness ==
    \E slot \in Slots :
        /\ Cardinality(InSlot(appointments, slot)) = 3
        /\ \A r \in Requests :
              /\ tasks[r].pc = "done"
              /\ tasks[r].op = "create_appointment"
              /\ tasks[r].status = 200
              /\ tasks[r].existing = 1
              /\ tasks[r].data.ambulatorio = slot.ambulatorio
              /\ tasks[r].data.data = slot.data
              /\ tasks[r].data.ora = slot.ora
              /\ tasks[r].data.tipo = slot.tipo

\* C10: two create requests for a monthly log of one (patient, clinic,
\* month), interleaved between the existence check and the insert, both
\* succeed: a request whose check found no log inserts its log and answers
\* 200 whatever is stored by then, so the tuple can have two logs.
C10_InsertIgnoresLaterLog ==
    [][\A r \in Requests :
          (/\ tasks[r].pc = "insert"
           /\ tasks[r].op = "create_scheda_gestione_picc"
           /\ tasks'[r].pc = "done")
          => /\ tasks'[r].status = 200
             /\ tasks[r].existing = {}
             /\ schede_gestione_picc \subseteq schede_gestione_picc'
             /\ Cardinality(find_scheda_gestione(schede_gestione_picc', tasks[r].data))
                    = Cardinality(find_scheda_gestione(schede_gestione_picc, tasks[r].data)) + 1]_vars

\* C10 witness: both requests found no log for the tuple, both were answered
\* 200, and two logs of that tuple are stored
C10_Witness ==
    /\ \A r \in Requests :
          /\ tasks[r].pc = "done"
          /\ tasks[r].op = "create_scheda_gestione_picc"
          /\ tasks[r].status = 200
          /\ tasks[r].existing = {}
    /\ tasks[1].data = tasks[2].data
    /\ Cardinality(find_scheda_gestione(schede_gestione_picc, tasks[1].data)) = 2

\* the prescriptions of a patient in a clinic
PrescrizioniOf(coll, patient_id, ambulatorio) ==
    {p \in coll : p.patient_id = patient_id /\ p.ambulatorio = ambulatorio}

OnePrescrizionePerPair ==
    \A p, q \in prescrizioni :
        (p.patient_id = q.patient_id /\ p.ambulatorio = q.ambulatorio) => p = q

\* an answered upsert of data: a stored prescription of the pair takes the
\* start date and duration of data and keeps its id, and nothing is inserted;
\* with none stored, exactly one is inserted, holding data
UpsertEffect(data) ==
    LET old == PrescrizioniOf(prescrizioni, data.patient_id, data.ambulatorio)
        new == PrescrizioniOf(prescrizioni', data.patient_id, data.ambulatorio)
    IN  /\ prescrizioni \ old = prescrizioni' \ new
        /\ Cardinality(new) = 1
        /\ \A q \in new :
              /\ q.data_inizio = data.data_inizio
              /\ q.durata_mesi = data.durata_mesi
              /\ old # {} => q.id \in Ids(old)
              /\ old = {} => q.id \notin Ids(prescrizioni)
        /\ Cardinality(prescrizioni') =
              Cardinality(prescrizioni) + (IF old = {} THEN 1 ELSE 0)

\* C11: after any sequence of prescription upserts and deletes, one request
\* at a time, at most one prescription is stored per (patient, clinic); an
\* upsert for a pair that has a prescription overwrites its start date and
\* duration, keeps its id and inserts nothing, and an upsert for a pair that
\* has none inserts exactly one.
C11_OnePrescrizionePerPair ==
    /\ []OnePrescrizionePerPair
    /\ [][(resp'.op = "create_or_update_prescrizione" /\ resp'.status = 200) =>
             \A data \in PrescrizioneUpsert, token \in Tokens :
                 create_or_update_prescrizione(data, token) => UpsertEffect(data)]_vars

\* an upsert has just overwritten the start date and duration of a stored
\* prescription while another pair holds one too
C11_Witness ==
    /\ resp.op = "create_or_update_prescrizione"
    /\ resp.status = 200
    /\ resp.body.message = "Prescrizione aggiornata"
    /\ Cardinality(prescrizioni) = 2
    /\ \E p \in prescrizioni :
          p.id = resp.body.id /\ p.data_inizio = Date(2025, 6, 11) /\ p.durata_mesi = 2

\* request r ended with 500 after the awaited call number step was reached
Failed(r, step) ==
    /\ tasks[r].pc = "done"
    /\ tasks[r].op = "delete_patient"
    /\ tasks[r].status = 500
    /\ tasks[r].step = step

\* C12: a cascade delete that fails part-way is not rolled back: the failing
\* call changes nothing stored, and once the first call has completed the
\* patient stays deleted, whatever the collections not yet reached still hold.
C12_NoRollback ==
    /\ [](\A r \in Requests, step \in 1..6 :
             Failed(r, step) => tasks[r].data.patient_id \notin Ids(patients))
    /\ [][\A r \in Requests :
             (tasks[r].pc = "delete" /\ tasks'[r].pc = "done" /\ tasks'[r].status = 500)
                 => UNCHANGED db]_vars

\* a delete has failed after the patient and the implant records were deleted:
\* the patient is gone and an attachment of that patient is still stored
C12_Witness ==
    \E r \in Requests, step \in 2..6 :
        /\ Failed(r, step)
        /\ tasks[r].data.patient_id \notin Ids(patients)
        /\ \E d \in photos : d.patient_id = tasks[r].data.patient_id

\* the day of the date lies in the month of the year, or with the month
\* omitted in the year, by the calendar
InMonth(data, anno, mese) ==
    \E t \in StatDays :
        data = Date(t[1], t[2], t[3]) /\ t[1] = anno /\ (mese = NoMese \/ t[2] = mese)

\* C13: the statistics count the appointments of the window [start, end):
\* for month M those of the year's month M, December ending on the first day
\* of the next year, and with the month omitted those of the whole year;
\* 2025-01-31 is counted and 2025-02-01 is not under year 2025, month 1.
C13_HalfOpenWindow ==
    (resp.op = "get_statistics" /\ resp.status = 200) =>
        LET b == resp.body IN
        b.totale_accessi =
            Cardinality({a \in appointments :
                            /\ a.ambulatorio = b.ambulatorio
                            /\ a.tipo \in TipoQuery(b.ambulatorio, b.tipo)
                            /\ InMonth(a.data, b.anno, b.mese)})

\* January 2025 was asked for a clinic that has an appointment on 2025-01-31
\* and one on 2025-02-01: one access is counted
C13_Witness ==
    /\ resp.op = "get_statistics"
    /\ resp.status = 200
    /\ resp.body.anno = 2025
    /\ resp.body.mese = 1
    /\ resp.body.tipo = NoTipo
    /\ resp.body.totale_accessi = 1
    /\ \E a1, a2 \in appointments :
          /\ a1.ambulatorio = resp.body.ambulatorio
          /\ a2.ambulatorio = resp.body.ambulatorio
          /\ a1.tipo = "PICC"
          /\ a2.tipo = "PICC"
          /\ a1.data = Date(2025, 1, 31)
          /\ a2.data = Date(2025, 2, 1)

\* the compare response answers the request of two equal periods
SamePeriod(periodo1_mese, periodo2_anno, tipo, token) ==
    compare_statistics("pta_centro", 2025, periodo1_mese, periodo2_anno,
                       periodo1_mese, tipo, token)

Counted(stats) ==
    {a \in appointments :
        /\ a.ambulatorio = stats.ambulatorio
        /\ (stats.tipo # NoTipo => a.tipo = stats.tipo)
        /\ InMonth(a.data, stats.anno, stats.mese)}

\* the occurrences of a procedure code in the lists of some appointments
Occurrences(apps, prest) ==
    Cardinality(UNION {{<<a, i>> : i \in {j \in DOMAIN a.prestazioni : a.prestazioni[j] = prest}}
                       : a \in apps})

\* the procedure codes of some appointments
Codes(apps) == UNION {{a.prestazioni[i] : i \in DOMAIN a.prestazioni} : a \in apps}

\* C15: compare_statistics returns period 2 minus period 1 for the total
\* accesses, the distinct patients and each procedure code of either period,
\* a code absent from a period counting 0 there; the codes of the differences
\* are exactly those of the two periods together.
C15_Differences ==
    (resp.op = "compare_statistics" /\ resp.status = 200) =>
        LET diff == resp.body.differenze
            apps1 == Counted(resp.body.periodo1)
            apps2 == Counted(resp.body.periodo2)
        IN  /\ diff.accessi = Cardinality(apps2) - Cardinality(apps1)
            /\ diff.pazienti_unici =
                  Cardinality({a.patient_id : a \in apps2})
                      - Cardinality({a.patient_id : a \in apps1})
            /\ DOMAIN diff.prestazioni = Codes(apps1) \cup Codes(apps2)
            /\ \A prest \in DOMAIN diff.prestazioni :
                  diff.prestazioni[prest] =
                      Occurrences(apps2, prest) - Occurrences(apps1, prest)

\* the second period has fewer accesses than the first and lacks a procedure
\* code of the first
C15_Witness ==
    /\ resp.op = "compare_statistics"
    /\ resp.status = 200
    /\ resp.body.differenze.accessi < 0
    /\ \E prest \in DOMAIN resp.body.differenze.prestazioni :
          /\ prest \notin DOMAIN resp.body.periodo2.prestazioni
          /\ resp.body.differenze.prestazioni[prest] < 0

\* C17: statistics of Villa delle Ginestre for the care type MED are refused
\* with 400; with the care type omitted Villa delle Ginestre counts its PICC
\* appointments only, and PTA Centro counts those of every care type.
C17_VillaGinestreStatistics ==
    /\ [][\A mese \in {NoMese, 1, 12} :
             get_statistics(VILLA_GINESTRE, 2025, mese, "MED", "Domenico")
                 => (resp'.status = 400 /\ UNCHANGED db)]_vars
    /\ []((resp.op = "get_statistics" /\ resp.status = 200 /\ resp.body.tipo = NoTipo) =>
            LET b == resp.body IN
            b.totale_accessi =
                Cardinality({a \in appointments :
                                /\ a.ambulatorio = b.ambulatorio
                                /\ InMonth(a.data, b.anno, b.mese)
                                /\ (b.ambulatorio = VILLA_GINESTRE => a.tipo = "PICC")}))

\* the year 2025 of Villa delle Ginestre was asked without a care type while
\* the clinic holds a PICC and a MED appointment of that year: one is counted
C17_Witness ==
    /\ resp.op = "get_statistics"
    /\ resp.status = 200
    /\ resp.body.ambulatorio = VILLA_GINESTRE
    /\ resp.body.tipo = NoTipo
    /\ resp.body.mese = NoMese
    /\ resp.body.totale_accessi = 1
    /\ \E a1, a2 \in appointments :
          /\ a1.ambulatorio = VILLA_GINESTRE /\ a1.tipo = "PICC"
          /\ a2.ambulatorio = VILLA_GINESTRE /\ a2.tipo = "MED"
          /\ InMonth(a1.data, 2025, NoMese)
          /\ InMonth(a2.data, 2025, NoMese)

\* the sum of the counts of a mapping
RECURSIVE Total(_)
Total(counts) ==
    IF DOMAIN counts = {} THEN 0
    ELSE LET k == CHOOSE k \in DOMAIN counts : TRUE IN
         counts[k] + Total([j \in DOMAIN counts \ {k} |-> counts[j]])

\* C16: the implant statistics leave out every implant record whose
\* patient_id is that of no stored patient: the total counts the records of
\* the clinic and period that have a stored patient, and equals the sum of
\* the per-type counts and of the per-month counts.
C16_OrphanImplantsExcluded ==
    [][\A ambulatorio \in Ambulatorio, mese \in {NoMese, 1} :
          (get_implant_statistics(ambulatorio, 2025, mese, "Domenico")
              /\ resp'.status = 200)
          => /\ resp'.body.totale_impianti =
                  Cardinality({sc \in schede_impianto_picc :
                                  /\ sc.ambulatorio = ambulatorio
                                  /\ InMonth(sc.data_impianto, 2025, mese)
                                  /\ sc.patient_id \in Ids(patients)})
             /\ resp'.body.totale_impianti = Total(resp'.body.per_tipo)
             /\ resp'.body.totale_impianti =
                  Total([month_key \in DOMAIN resp'.body.dettaglio_mensile |->
                            Total(resp'.body.dettaglio_mensile[month_key])])]_vars

\* the dressing record that an answered create of body has just stored: it
\* holds every field of the body as sent, an empty list for each list field
\* the body leaves out, a new id and the time of creation
Created(body) ==
    \E d \in schede_medicazione_med' :
        /\ schede_medicazione_med' = schede_medicazione_med \cup {d}
        /\ d.id \notin Ids(schede_medicazione_med)
        /\ d.created_at = now
        /\ \A k \in DOMAIN body : d[k] = body[k]
        /\ \A k \in {"fondo", "essudato_tipo"} \ DOMAIN body :
              k \in DOMAIN d /\ d[k] = <<>>

\* C18: a dressing record created from a field set and then fetched by id
\* comes back with the same field set, the assigned id and created_at: the
\* create stores the fields as sent, with an empty list (never null) for each
\* list field not sent, and the get returns the stored record as it is.
C18_RoundTrip ==
    [][/\ (resp'.op = "create_scheda_medicazione_med" /\ resp'.status = 200) =>
            \A body \in SchedaMedicazioneBodies, token \in Tokens :
                create_scheda_medicazione_med(SchedaMedicazioneMEDCreate(body), token)
                    => Created(body)
       /\ (resp'.op = "get_scheda_medicazione_med" /\ resp'.status = 200) =>
            \A id \in Ids(schede_medicazione_med), token \in Tokens :
                get_scheda_medicazione_med(id, token) =>
                    /\ resp'.body \in schede_medicazione_med
                    /\ resp'.body.id = id
                    /\ UNCHANGED db]_vars

\* a record created without fondo and with essudato_tipo has been fetched
C18_Witness ==
    /\ resp.op = "get_scheda_medicazione_med"
    /\ resp.status = 200
    /\ resp.body \in schede_medicazione_med
    /\ resp.body.fondo = <<>>
    /\ resp.body.essudato_tipo = <<"sieroso">>

\* C19: create_appointment answers 404 when no patient has the patient_id
\* and otherwise stores the first and last name the patient has at that
\* time; update_patient leaves every stored appointment, its names included,
\* as it was.
C19_NameSnapshot ==
    [][/\ \A data \in CascadeAppointment :
            create_appointment(data, "Domenico") =>
                IF data.patient_id \notin Ids(patients)
                THEN resp'.status = 404 /\ UNCHANGED db
                ELSE resp'.status = 200 =>
                        \E pt \in patients, a \in appointments' :
                            /\ pt.id = data.patient_id
                            /\ appointments' = appointments \cup {a}
                            /\ a \notin appointments
                            /\ a.patient_id = pt.id
                            /\ a.patient_nome = pt.nome
                            /\ a.patient_cognome = pt.cognome
       /\ \A id \in Ids(patients), data \in PatientUpdates :
            update_patient(id, data, "Domenico") => UNCHANGED appointments]_vars

\* the patient was renamed after an appointment was made: the appointment
\* still holds the former name
C19_Witness ==
    /\ resp = [op |-> "update_patient", status |-> 200]
    /\ \E pt \in patients, a \in appointments :
          /\ a.patient_id = pt.id
          /\ a.patient_nome # pt.nome
          /\ a.patient_cognome # pt.cognome

\* C20: update_patient overwrites the fields sent with a non-null value and
\* updated_at, and nothing else: a field sent as null or not sent keeps its
\* stored value, and id, clinic and created_at never change.
C20_PartialUpdate ==
    [][\A id \in Ids(patients), data \in PatientUpdates :
          (update_patient(id, data, "Domenico") /\ resp'.status = 200) =>
              \E pt \in patients, q \in patients' :
                  /\ pt.id = id
                  /\ patients' = (patients \ {pt}) \cup {q}
                  /\ DOMAIN q = DOMAIN pt
                  /\ q.id = pt.id
                  /\ q.ambulatorio = pt.ambulatorio
                  /\ q.created_at = pt.created_at
                  /\ q.updated_at = now
                  /\ \A k \in DOMAIN data :
                        q[k] = IF data[k] # Null THEN data[k] ELSE pt[k]
                  /\ \A k \in DOMAIN pt \ (DOMAIN data \cup {"updated_at"}) :
                        q[k] = pt[k]]_vars

\* an update of the first name alone, made after the creation time, has been
\* answered: the first name is new, the last name is the one given at creation
C20_Witness ==
    /\ resp = [op |-> "update_patient", status |-> 200]
    /\ \E pt \in patients :
          /\ pt.nome = "Bruna"
          /\ pt.cognome = "Rossi"
          /\ pt.updated_at > pt.created_at

\* C21: with no file type sent, an upload stores the one its content type
\* names: "pdf" for pdf, "word" for word or document, "excel" for excel or
\* spreadsheet (a spreadsheet type whose name also has "document" in it
\* included), "image" for image/*; a file type sent other than "image" is
\* stored as sent.
C21_FileTypeInferred ==
    [][\A data \in ScopedScheda, file_type \in {Null, "image", "pdf"},
         mime_type \in MimeTypes, token \in Tokens :
          (upload_photo(data, file_type, mime_type, token) /\ resp'.status = 200) =>
              \E ph \in photos' :
                  /\ photos' = photos \cup {ph}
                  /\ ph.id \notin Ids(photos)
                  /\ LET in(w) == \E i \in DOMAIN mime_type : mime_type[i] = w IN
                     /\ file_type \notin {Null, "image"} => ph.file_type = file_type
                     /\ file_type \in {Null, "image"} =>
                           /\ in("spreadsheet") => ph.file_type = "excel"
                           /\ (in("pdf") /\ ~in("spreadsheet")) => ph.file_type = "pdf"
                           /\ (in("word") /\ ~in("spreadsheet")) => ph.file_type = "word"
                           /\ (in("excel") /\ ~in("document")) => ph.file_type = "excel"
                           /\ (mime_type # <<>> /\ mime_type[1] = "image/")
                                 => ph.file_type = "image"]_vars

\* C22: the list of appointments applies the exact date or the inclusive
\* range, never both: with an exact date the range bounds are ignored, the
\* range applies only with both bounds given; the list holds, once each, the
\* appointments of the requested clinic that pass the filter, by date
\* ascending then time ascending.
C22_ListAppointments ==
    [][(resp'.op = "get_appointments" /\ resp'.status = 200) =>
        \A ambulatorio \in Ambulatorio, data \in {<<>>, Date(2025, 6, 9)},
           data_from \in {<<>>, Date(2025, 6, 10)}, data_to \in {<<>>, Date(2025, 6, 10)} :
            get_appointments(ambulatorio, data, data_from, data_to, "", "Domenico") =>
                LET list == resp'.body
                    wanted ==
                        {a \in appointments :
                            /\ a.ambulatorio = ambulatorio
                            /\ data # <<>> => a.data = data
                            /\ (data = <<>> /\ data_from # <<>> /\ data_to # <<>>) =>
                                  /\ (a.data = data_from \/ StrLess(data_from, a.data))
                                  /\ (a.data = data_to \/ StrLess(a.data, data_to))}
                IN  /\ {list[i] : i \in DOMAIN list} = wanted
                    /\ Len(list) = Cardinality(wanted)
                    /\ \A i \in 1..(Len(list) - 1) :
                          \/ StrLess(list[i].data, list[i + 1].data)
                          \/ /\ list[i].data = list[i + 1].data
                             /\ (list[i].ora = list[i + 1].ora
                                    \/ StrLess(list[i].ora, list[i + 1].ora))
                    /\ UNCHANGED db]_vars

\* a list by the exact date 2025-06-09, sent with the range of 2025-06-10,
\* has returned the appointment of the 9th while one of the 10th is stored
C22_Witness ==
    /\ resp.op = "get_appointments"
    /\ resp.status = 200
    /\ Len(resp.body) = 1
    /\ resp.body[1].data = Date(2025, 6, 9)
    /\ \E a \in appointments :
          a.data = Date(2025, 6, 10) /\ a.ambulatorio = resp.body[1].ambulatorio

\* C23: the download of an implant record as a document answers 200 with the
\* bytes for a stored record of a clinic of the token, 404 when the id is not
\* stored and 403 when the stored clinic is outside the token's clinics.
C23_ImplantDocument ==
    [][\A id \in IdInputs(schede_impianto_picc), token \in Tokens :
        download_scheda_impianto_pdf(id, token) =>
            resp'.status =
                IF find_one(schede_impianto_picc, id) = {} THEN 404
                ELSE IF \E d \in find_one(schede_impianto_picc, id) :
                            d.ambulatorio \notin Allowed(token) THEN 403
                ELSE 200]_vars

\* the records of every collection stored under a clinic
StoredUnder(ambulatorio) ==
    <<{d \in patients : d.ambulatorio = ambulatorio},
      {d \in appointments : d.ambulatorio = ambulatorio},
      {d \in schede_medicazione_med : d.ambulatorio = ambulatorio},
      {d \in schede_impianto_picc : d.ambulatorio = ambulatorio},
      {d \in schede_gestione_picc : d.ambulatorio = ambulatorio},
      {d \in photos : d.ambulatorio = ambulatorio},
      {d \in prescrizioni : d.ambulatorio = ambulatorio}>>

\* C24: no update sent with a token of pta_centro alone (Giovanna) changes
\* the records stored under villa_ginestre: none is created there, moved
\* there, modified or deleted, whatever keys the update mapping carries.
C24_ClinicIsolation ==
    [][(\/ \E id \in Ids(appointments), data \in ClinicPatch :
              update_appointment(id, data, "Giovanna")
        \/ \E id \in Ids(schede_medicazione_med), data \in ClinicPatch :
              update_scheda_medicazione_med(id, data, "Giovanna")
        \/ \E id \in Ids(schede_impianto_picc), data \in ClinicPatch :
              update_scheda_impianto_picc(id, data, "Giovanna")
        \/ \E id \in Ids(schede_gestione_picc), data \in ClinicPatch :
              update_scheda_gestione_picc(id, data, "Giovanna"))
        => StoredUnder("villa_ginestre")' = StoredUnder("villa_ginestre")]_vars

\* C25: within a collection no two stored records share an id, and an update
\* of an appointment or of a dressing record leaves the id and the
\* patient_id of the record it targets as they were.
C25_IdsImmutable ==
    /\ [](\A coll \in {appointments, schede_medicazione_med} :
            \A d, e \in coll : d.id = e.id => d = e)
    /\ [][resp'.op \in {"update_appointment", "update_scheda_medicazione_med"} =>
            /\ {<<d.id, d.patient_id>> : d \in appointments'}
                 = {<<d.id, d.patient_id>> : d \in appointments}
            /\ {<<d.id, d.patient_id>> : d \in schede_medicazione_med'}
                 = {<<d.id, d.patient_id>> : d \in schede_medicazione_med}]_vars

\* C26: in every reachable state every stored appointment, dressing record,
\* implant record, monthly log, attachment and prescription carries the
\* patient_id of a stored patient.
C26_PatientsExist ==
    /\ \A d \in appointments : d.patient_id \in Ids(patients)
    /\ \A d \in schede_medicazione_med : d.patient_id \in Ids(patients)
    /\ \A d \in schede_impianto_picc : d.patient_id \in Ids(patients)
    /\ \A d \in schede_gestione_picc : d.patient_id \in Ids(patients)
    /\ \A d \in photos : d.patient_id \in Ids(patients)
    /\ \A d \in prescrizioni : d.patient_id \in Ids(patients)

\* C27: a create_appointment that succeeds has stored an appointment whose
\* patient is stored under the clinic of the appointment, so that the name
\* snapshot of a patient never reaches a principal of another clinic alone.
C27_SameClinicPatient ==
    [][(resp'.op = "create_appointment" /\ resp'.status = 200) =>
        \A a \in appointments' \ appointments :
            \E patient \in find_one(patients, a.patient_id) :
                patient.ambulatorio = a.ambulatorio]_vars

\* C28: a request that ends in an error (401, 403, 404, or the 400 of an
\* invalid assignment, a full slot, a second log of the month, a care type
\* the clinic does not give) leaves every collection as it was, and so does
\* every read (get, list, statistics, comparison, export) whatever it answers.
C28_ErrorsAndReadsKeepStore ==
    [][(\/ resp'.status \in {400, 401, 403, 404}
        \/ resp'.op \in {"get_patients", "get_patient", "download_patient_pdf",
                         "download_patient_zip", "get_appointments",
                         "get_schede_medicazione_med", "get_scheda_medicazione_med",
                         "get_schede_impianto_picc", "download_scheda_impianto_pdf",
                         "get_schede_gestione_picc", "get_photos", "get_photo",
                         "get_prescrizioni", "get_statistics", "compare_statistics"})
        => UNCHANGED db]_vars

\* the create of a second log for a month that has one was refused
C28_Witness ==
    /\ resp.op = "create_scheda_gestione_picc"
    /\ resp.status = 400
    /\ schede_gestione_picc # {}
    /\ \E slot \in Slots : Cardinality(InSlot(appointments, slot)) = 2

\* C29: when a slot holds 2 appointments and a delete_appointment of one of
\* them, or a delete_patient of the patient of one of them, answers 200, the
\* slot holds fewer than 2 and a create_appointment for that slot, by any
\* token allowed for the clinic and for any patient still stored, answers 200
\* in the state the deletion leaves.
C29_SlotReleased ==
    [][(resp'.op \in {"delete_appointment", "delete_patient"} /\ resp'.status = 200) =>
        \A slot \in Slots :
            (/\ Cardinality(InSlot(appointments, slot)) = 2
             /\ \/ \E a \in InSlot(appointments, slot), by \in Tokens :
                      delete_appointment(a.id, by)
                \/ \E a \in InSlot(appointments, slot), by \in Tokens :
                      delete_patient(a.patient_id, by))
            => /\ Cardinality(InSlot(appointments', slot)) < 2
               /\ \A token \in Tokens, patient_id \in Ids(patients') :
                     slot.ambulatorio \in Allowed(token) =>
                        (ENABLED (/\ create_appointment(
                                        [patient_id |-> patient_id,
                                         prestazioni |-> <<"medicazione_semplice">>] @@ slot,
                                        token)
                                  /\ resp'.status = 200))']_vars

\* a delete_appointment has left one appointment, of a stored patient, in a
\* slot that held the two appointments the specification stores at most
C29_Witness ==
    /\ resp = [op |-> "delete_appointment", status |-> 200]
    /\ \E slot \in Slots : Cardinality(InSlot(appointments, slot)) = 1
    /\ \A a \in appointments : a.patient_id \in Ids(patients)
    /\ appointments # {}

\* C30: in a statistics report the accesses of the months sum to the total
\* accesses, the counts of each procedure code over the months sum to its
\* overall count, every month key is the YYYY-MM of a month of the queried
\* window, the distinct patients of a month are at most its accesses, and the
\* overall distinct patients are at most the sum of those of the months.
C30_MonthlyBreakdown ==
    (resp.op = "get_statistics" /\ resp.status = 200) =>
        LET b == resp.body
            dm == b.dettaglio_mensile
            codes == DOMAIN b.prestazioni \cup UNION {DOMAIN dm[m].prestazioni : m \in DOMAIN dm}
        IN  /\ Total([m \in DOMAIN dm |-> dm[m].accessi]) = b.totale_accessi
            /\ \A prest \in codes :
                  Total([m \in DOMAIN dm |-> Get(dm[m].prestazioni, prest)])
                      = Get(b.prestazioni, prest)
            /\ \A m \in DOMAIN dm :
                  /\ \E month \in 1..12 :
                        /\ b.mese # NoMese => month = b.mese
                        /\ m = Decimal(b.anno) \o <<45>> \o Decimal02(month)
                  /\ dm[m].pazienti_unici <= dm[m].accessi
            /\ b.pazienti_unici <= Total([m \in DOMAIN dm |-> dm[m].pazienti_unici])

\* a report counts two accesses of one patient in one month
C30_Witness ==
    /\ resp.op = "get_statistics"
    /\ resp.status = 200
    /\ resp.body.totale_accessi = 2
    /\ resp.body.pazienti_unici = 1
    /\ \E m \in DOMAIN resp.body.dettaglio_mensile :
          resp.body.dettaglio_mensile[m].accessi = 2

=============================================================================
